---- MODULE Spec2Model ----
(***************************************************************************)
(* A model of asic-miner-scanner: the range parser, the scan pass and its  *)
(* shared registry / progress / history structures, the per-device        *)
(* refresh tasks and the CSV recorder.                                     *)
(*                                                                         *)
(* Strings are sequences of one-character strings, so that split, rfind,  *)
(* parse::<u8> and format! are computed the way the code computes them.    *)
(***************************************************************************)
EXTENDS Integers, Sequences, FiniteSets, TLC

VARIABLES
    \* ---- RangeParser (scanner.rs / main.rs) ----
    ip_range_start,     \* the start address typed by the operator
    ip_range_end,       \* the end address typed by the operator
    parse_result,       \* Result<String, String> of parse_ip_range, or NotRun
    total_result,       \* usize of calculate_total_ips, or NotRun
    parse_pc,           \* "input" -> "parsed" -> "counted" or "loaded"
    range_encoding,     \* a range encoding handed to the two calculate_total_ips
    count_result,       \* what each calculate_total_ips made of range_encoding
    \* ---- the application state (main.rs MinerScannerApp) ----
    saved_ranges,       \* Vec<SavedRange>: the range encodings
    miners,             \* Arc<Mutex<Vec<MinerInfo>>>: the registry
    scan_progress,      \* Arc<Mutex<ScanProgress>>
    hashrate_history,   \* Arc<Mutex<HashMap<String, Vec<HashratePoint>>>>
    \* ---- the background threads ----
    passes,             \* the scan-pass threads spawned so far, in spawn order
    refreshes,          \* the refresh threads spawned so far, in spawn order
    update_pc,          \* the UI thread in update(): "idle" between frames,
                        \* "launch" between the auto-scan check and its launch,
                        \* "write" inside a write of a recording file made
                        \* while a detail view is drawn
    \* ---- the detail views (ui/detail.rs) ----
    detail_view_miners, \* Vec<MinerInfo>: the addresses of the open views
    detail_refresh_times,   \* HashMap<String, Instant>, kept as the whole seconds
                        \* elapsed since the instant
    detail_graph_update_times, \* HashMap<String, Instant>: the addresses it holds
    detail_metrics_history, \* HashMap<String, MetricsHistory>: the fine buffers
    recording_states,   \* HashMap<String, RecordingState>
    last_auto_refresh,  \* for each address, the seconds elapsed since its last
                        \* automatic refresh, whether its view was closed since
                        \* (and a recording file deleted with it), and how far
                        \* that refresh was from the one before it
    append_call,        \* the last call of append_data_point: its arguments and
                        \* what it returned
    \* ---- the environment ----
    clock,              \* the wall clock; it also numbers the device readings
    files,              \* the recordings directory: path -> header and rows
    scenario,           \* what the run may do: the numbers of passes, refresh
                        \* threads and recordings, and the board/fan topologies
                        \* the devices report
    \* ---- the history run (SpecHistory) ----
    history_run         \* the buffer family and device being filled, and the
                        \* number of points inserted so far

parseVars == <<ip_range_start, ip_range_end, parse_result, total_result, parse_pc,
               range_encoding, count_result>>

appVars == <<saved_ranges, miners, scan_progress, hashrate_history>>

threadVars == <<passes, refreshes>>

detailVars == <<detail_metrics_history, detail_view_miners, detail_refresh_times,
                detail_graph_update_times, last_auto_refresh>>

recorderVars == <<recording_states, files, append_call>>

vars == <<parseVars, appVars, threadVars, detailVars, recorderVars, clock, scenario,
          history_run, update_pc>>

\* What the scan pass and the refresh threads leave alone.
nonScanVars == <<parseVars, detailVars, recorderVars, scenario, history_run, update_pc>>

\* What the range parser leaves alone.
nonParseVars == <<appVars, threadVars, detailVars, recorderVars, clock, scenario,
                  history_run, update_pc>>

NotRun == "not_run"

\* No encoding is being counted.
NotCounted ==
    [scanner |-> [done |-> FALSE, val |-> 0],
     app |-> [done |-> FALSE, panicked |-> FALSE, val |-> 0]]

(***************************************************************************)
(* Strings                                                                 *)
(***************************************************************************)
Digits == <<"0", "1", "2", "3", "4", "5", "6", "7", "8", "9">>

IsDigit(c) == \E i \in 1..10 : Digits[i] = c

DigitVal(c) == (CHOOSE i \in 1..10 : Digits[i] = c) - 1

\* str::split('.'): the parts between the separators; always at least one part.
RECURSIVE SplitFrom(_, _, _, _)
SplitFrom(s, sep, i, cur) ==
    IF i > Len(s) THEN <<cur>>
    ELSE IF s[i] = sep THEN <<cur>> \o SplitFrom(s, sep, i + 1, <<>>)
    ELSE SplitFrom(s, sep, i + 1, Append(cur, s[i]))

Split(s, sep) == SplitFrom(s, sep, 1, <<>>)

\* str::rfind(c): the 1-based position of the last c, 0 for None.
RFind(s, c) ==
    IF \E i \in 1..Len(s) : s[i] = c
    THEN CHOOSE i \in 1..Len(s) : s[i] = c /\ \A j \in (i + 1)..Len(s) : s[j] # c
    ELSE 0

RECURSIVE DecimalValue(_)
DecimalValue(ds) ==
    IF ds = <<>> THEN 0
    ELSE 10 * DecimalValue(SubSeq(ds, 1, Len(ds) - 1)) + DigitVal(ds[Len(ds)])

U8Err == [ok |-> FALSE, val |-> 0]

\* str::parse::<u8>(): an optional leading '+', then one or more decimal digits,
\* the value at most u8::MAX; anything else is an Err.
ParseU8(s) ==
    LET body == IF Len(s) > 0 /\ s[1] = "+" THEN Tail(s) ELSE s
    IN  IF body = <<>> THEN U8Err
        ELSE IF \E i \in 1..Len(body) : ~IsDigit(body[i]) THEN U8Err
        ELSE IF DecimalValue(body) > 255 THEN U8Err
        ELSE [ok |-> TRUE, val |-> DecimalValue(body)]

\* format!("{}", n) of an unsigned integer.
RECURSIVE FormatNat(_)
FormatNat(n) ==
    IF n < 10 THEN <<Digits[n + 1]>>
    ELSE Append(FormatNat(n \div 10), Digits[(n % 10) + 1])

(***************************************************************************)
(* RangeParser                                                             *)
(***************************************************************************)
InvalidFormat == "Invalid IP address format"
SubnetMismatch == "IP ranges must be in the same subnet (first 3 octets must match)"
InvalidStart == "Invalid start IP address"
InvalidEnd == "Invalid end IP address"
OrderingError == "Start IP must be less than or equal to end IP"

Ok(range) == [ok |-> TRUE, range |-> range, err |-> ""]
Err(msg) == [ok |-> FALSE, range |-> <<>>, err |-> msg]

\* The mutant of parse_ip_range that checks the order before the subnet.
parse_ip_range_order_first(start, end) ==
    LET start_parts == Split(start, ".")
        end_parts == Split(end, ".")
    IN  IF Len(start_parts) # 4 \/ Len(end_parts) # 4 THEN Err(InvalidFormat)
        ELSE LET start_last == ParseU8(start_parts[4])
                 end_last == ParseU8(end_parts[4])
             IN  IF ~start_last.ok THEN Err(InvalidStart)
                 ELSE IF ~end_last.ok THEN Err(InvalidEnd)
                 ELSE IF start_last.val > end_last.val THEN Err(OrderingError)
                 ELSE IF \/ start_parts[1] # end_parts[1]
                         \/ start_parts[2] # end_parts[2]
                         \/ start_parts[3] # end_parts[3]
                 THEN Err(SubnetMismatch)
                 ELSE Ok(start_parts[1] \o <<".">> \o start_parts[2] \o <<".">>
                         \o start_parts[3] \o <<".">> \o FormatNat(start_last.val)
                         \o <<"-">> \o FormatNat(end_last.val))

\* The mutant of parse_ip_range that accepts an inverted range.
parse_ip_range_no_order(start, end) ==
    LET start_parts == Split(start, ".")
        end_parts == Split(end, ".")
    IN  IF Len(start_parts) # 4 \/ Len(end_parts) # 4 THEN Err(InvalidFormat)
        ELSE IF \/ start_parts[1] # end_parts[1]
                \/ start_parts[2] # end_parts[2]
                \/ start_parts[3] # end_parts[3]
        THEN Err(SubnetMismatch)
        ELSE LET start_last == ParseU8(start_parts[4])
                 end_last == ParseU8(end_parts[4])
             IN  IF ~start_last.ok THEN Err(InvalidStart)
                 ELSE IF ~end_last.ok THEN Err(InvalidEnd)
                 ELSE Ok(start_parts[1] \o <<".">> \o start_parts[2] \o <<".">>
                         \o start_parts[3] \o <<".">> \o FormatNat(start_last.val)
                         \o <<"-">> \o FormatNat(end_last.val))

parse_ip_range(start, end) ==
    LET start_parts == Split(start, ".")
        end_parts == Split(end, ".")
    IN  IF Len(start_parts) # 4 \/ Len(end_parts) # 4 THEN Err(InvalidFormat)
        ELSE IF \/ start_parts[1] # end_parts[1]
                \/ start_parts[2] # end_parts[2]
                \/ start_parts[3] # end_parts[3]
        THEN Err(SubnetMismatch)
        ELSE LET start_last == ParseU8(start_parts[4])
                 end_last == ParseU8(end_parts[4])
             IN  IF ~start_last.ok THEN Err(InvalidStart)
                 ELSE IF ~end_last.ok THEN Err(InvalidEnd)
                 ELSE IF start_last.val > end_last.val THEN Err(OrderingError)
                 ELSE Ok(start_parts[1] \o <<".">> \o start_parts[2] \o <<".">>
                         \o start_parts[3] \o <<".">> \o FormatNat(start_last.val)
                         \o <<"-">> \o FormatNat(end_last.val))

\* The mutant of load_saved_range that cuts the start address at its first dot.
load_saved_range_first_dot(range, start0, end0) ==
    LET dash_pos == RFind(range, "-")
    IN  IF dash_pos = 0 THEN [ip_range_start |-> start0, ip_range_end |-> end0]
        ELSE LET start == SubSeq(range, 1, dash_pos - 1)
                 end_octet == SubSeq(range, dash_pos + 1, Len(range))
                 last_dot_pos == Len(Split(start, ".")[1]) + 1
             IN  IF last_dot_pos > Len(start)
                 THEN [ip_range_start |-> start0, ip_range_end |-> end0]
                 ELSE [ip_range_start |-> start,
                       ip_range_end |-> SubSeq(start, 1, last_dot_pos - 1) \o <<".">>
                                          \o end_octet]

\* load_saved_range: the two address fields a range encoding is read back into;
\* start0 and end0 are the fields as they were, kept when the encoding has no
\* dash or its start has no dot.
load_saved_range(range, start0, end0) ==
    LET dash_pos == RFind(range, "-")
    IN  IF dash_pos = 0 THEN [ip_range_start |-> start0, ip_range_end |-> end0]
        ELSE LET start == SubSeq(range, 1, dash_pos - 1)
                 end_octet == SubSeq(range, dash_pos + 1, Len(range))
                 last_dot_pos == RFind(start, ".")
             IN  IF last_dot_pos = 0
                 THEN [ip_range_start |-> start0, ip_range_end |-> end0]
                 ELSE [ip_range_start |-> start,
                       ip_range_end |-> SubSeq(start, 1, last_dot_pos - 1) \o <<".">>
                                          \o end_octet]

\* The mutant of calculate_total_ips that computes in u8 (wrapping), as the
\* copy of it in main.rs does.
calculate_total_ips_u8(range) ==
    LET dash_pos == RFind(range, "-")
    IN  IF dash_pos = 0 THEN 0
        ELSE LET last_dot_pos == RFind(SubSeq(range, 1, dash_pos - 1), ".")
             IN  IF last_dot_pos = 0 THEN 0
                 ELSE LET start == ParseU8(SubSeq(range, last_dot_pos + 1, dash_pos - 1))
                          end == ParseU8(SubSeq(range, dash_pos + 1, Len(range)))
                      IN  IF start.ok /\ end.ok /\ end.val >= start.val
                          THEN (end.val - start.val + 1) % 256
                          ELSE 0

\* scanner.rs: the octets are widened to usize before the arithmetic.
calculate_total_ips(range) ==
    LET dash_pos == RFind(range, "-")
    IN  IF dash_pos = 0 THEN 0
        ELSE LET last_dot_pos == RFind(SubSeq(range, 1, dash_pos - 1), ".")
             IN  IF last_dot_pos = 0 THEN 0
                 ELSE LET start == ParseU8(SubSeq(range, last_dot_pos + 1, dash_pos - 1))
                          end == ParseU8(SubSeq(range, dash_pos + 1, Len(range)))
                      IN  IF start.ok /\ end.ok /\ end.val >= start.val
                          THEN end.val - start.val + 1
                          ELSE 0

(***************************************************************************)
(* The scan pass, the registry and the refresh threads                     *)
(***************************************************************************)
\* The number of scan passes launched in one run of the model.
MaxPasses == 2

\* The configured interval of the automatic refresh of a detail view, in
\* seconds.
RefreshInterval == 2

\* The number of refresh threads spawned in one run of the model.
MaxRefreshes == 2

\* The subnet of the saved ranges; a device address is written as its last octet.
Subnet == <<"1", "0", ".", "0", ".", "8", "1", ".">>

SavedRange(first, last) ==
    parse_ip_range(Subnet \o FormatNat(first), Subnet \o FormatNat(last)).range

\* The lists of saved ranges the application is started with: two ranges that
\* overlap in one address.
SavedRangeLists ==
    { <<SavedRange(1, 2), SavedRange(2, 2)>> }

\* The last octets of the addresses a range encoding covers, as the device
\* client reads the encoding.
RangeOctets(range) ==
    LET dash_pos == RFind(range, "-")
        last_dot_pos == RFind(SubSeq(range, 1, dash_pos - 1), ".")
        start == ParseU8(SubSeq(range, last_dot_pos + 1, dash_pos - 1))
        end == ParseU8(SubSeq(range, dash_pos + 1, Len(range)))
    IN  start.val .. end.val

\* main.rs: the octets are subtracted as u8 and the result is widened afterwards
\* (the arithmetic of a release build, which wraps).
app_calculate_total_ips(range) ==
    LET dash_pos == RFind(range, "-")
    IN  IF dash_pos = 0 THEN 0
        ELSE LET last_dot_pos == RFind(SubSeq(range, 1, dash_pos - 1), ".")
             IN  IF last_dot_pos = 0 THEN 0
                 ELSE LET start == ParseU8(SubSeq(range, last_dot_pos + 1, dash_pos - 1))
                          end == ParseU8(SubSeq(range, dash_pos + 1, Len(range)))
                      IN  IF start.ok /\ end.ok
                          THEN (((end.val - start.val) % 256) + 1) % 256
                          ELSE 0

\* ranges.iter().map(|r| self.calculate_total_ips(r)).sum()
RECURSIVE SumTotalIps(_)
SumTotalIps(ranges) ==
    IF ranges = <<>> THEN 0
    ELSE app_calculate_total_ips(Head(ranges)) + SumTotalIps(Tail(ranges))

\* The ascending sequence of the numbers of a set.
RECURSIVE Ascending(_)
Ascending(S) ==
    IF S = {} THEN <<>>
    ELSE LET m == CHOOSE x \in S : \A y \in S : x <= y
         IN  <<m>> \o Ascending(S \ {m})

\* The orders in which into_values() may yield the values of a HashMap.
Orderings(S) ==
    { s \in [1..Cardinality(S) -> S] : \A i, j \in 1..Cardinality(S) : i # j => s[i] # s[j] }

\* A MinerData, the reading get_data() returns: the time it was taken, which
\* tells the readings apart, the numbers of hashboards and fans it lists, and
\* whether it carries a hashrate (data.hashrate is Some).
MinerData(seq, topology) ==
    [seq |-> seq, hashboards |-> topology.hashboards, fans |-> topology.fans,
     hashrate |-> topology.hashrate]

\* No reading: the full_data of an entry is None.
NoData == [seq |-> 0, hashboards |-> 0, fans |-> 0, hashrate |-> FALSE]

\* The topology every device reports in the runs that do not record.
FixedTopology == [hashboards |-> 3, fans |-> 2, hashrate |-> TRUE]

\* A device that reports its boards and fans and no hashrate.
NoHashrate == [hashboards |-> 3, fans |-> 2, hashrate |-> FALSE]

\* The hashrate string of a MinerInfo: "N/A".
NotAvailable == 0

\* A MinerInfo: the display fields (hashrate and the other formatted strings),
\* written as the time of the reading they were formatted from, and full_data.
\* The hashrate string is "N/A" when the reading carries no hashrate.
MinerInfo(ip, data) ==
    [ip |-> ip, hashrate |-> IF data.hashrate THEN data.seq ELSE NotAvailable,
     full_data |-> data]

IdleProgress ==
    [scanning |-> FALSE, current_ip |-> 0, total_ips |-> 0, scanned_ips |-> 0,
     found_miners |-> 0]

NewPass(ranges) ==
    [pc |-> "scan", ranges |-> ranges, discovered |-> <<>>, data |-> NoData,
     timestamp |-> 0, new_miners |-> <<>>,
     \* what the pass has seen, in order: the outcome of each enumeration and
     \* each <<address, reading>> fetched
     enumerated |-> <<>>, fetched |-> <<>>]

\* No call of append_data_point has been followed.
NoAppendCall == [called |-> FALSE]

NoHistoryRun == [family |-> "none", ip |-> 0, inserted |-> 0]

AppInit ==
    /\ detail_view_miners = {}
    /\ detail_refresh_times = [ip \in {} |-> 0]
    /\ detail_graph_update_times = {}
    /\ last_auto_refresh = [ip \in {} |-> 0]
    /\ append_call = NoAppendCall
    /\ detail_metrics_history = [ip \in {} |-> <<>>]
    /\ recording_states = [ip \in {} |-> <<>>]
    /\ files = [path \in {} |-> <<>>]
    /\ history_run = NoHistoryRun
    /\ miners = <<>>
    /\ scan_progress = IdleProgress
    /\ hashrate_history = [ip \in {} |-> <<>>]
    /\ passes = <<>>
    /\ refreshes = <<>>
    /\ update_pc = "idle"
    /\ clock = 1

Init ==
    /\ AppInit
    /\ scenario = [passes |-> MaxPasses, refreshes |-> MaxRefreshes, recordings |-> 0,
                   topologies |-> {FixedTopology}, views |-> 1, points |-> 1,
                   detail_refresh_interval_secs |-> RefreshInterval]
    /\ saved_ranges \in SavedRangeLists
    /\ ip_range_start = Subnet \o <<"0">>
    /\ ip_range_end = Subnet \o <<"2", "5", "5">>
    /\ parse_result = NotRun
    /\ total_result = NotRun
    /\ parse_pc = "input"
    /\ range_encoding = <<>>
    /\ count_result = NotCounted

\* The mutant of scan_all_saved_ranges that keeps the count of the scanned
\* addresses.
scan_all_saved_ranges_keeps_scanned ==
    /\ saved_ranges # <<>>
    /\ Len(passes) < scenario.passes
    /\ scan_progress' = [scan_progress EXCEPT
                           !.scanning = TRUE,
                           !.total_ips = SumTotalIps(saved_ranges),
                           !.found_miners = 0,
                           !.current_ip = 0]
    /\ passes' = Append(passes, NewPass(saved_ranges))
    /\ UNCHANGED <<saved_ranges, miners, hashrate_history, refreshes, clock, parseVars,
                   detailVars, recorderVars, scenario, history_run>>

\* scan_all_saved_ranges: the progress block is reset under its lock and the
\* pass thread is spawned with a copy of the ranges.
scan_all_saved_ranges ==
    /\ saved_ranges # <<>>
    /\ Len(passes) < scenario.passes
    /\ scan_progress' = [scan_progress EXCEPT
                           !.scanning = TRUE,
                           !.total_ips = SumTotalIps(saved_ranges),
                           !.scanned_ips = 0,
                           !.found_miners = 0,
                           !.current_ip = 0]
    /\ passes' = Append(passes, NewPass(saved_ranges))
    /\ UNCHANGED <<saved_ranges, miners, hashrate_history, refreshes, clock, parseVars,
                   detailVars, recorderVars, scenario, history_run>>

\* The SCAN ALL button: enabled whenever there are saved ranges.
ManualScan ==
    /\ update_pc = "idle"
    /\ scan_all_saved_ranges
    /\ UNCHANGED update_pc

\* The mutant of AutoScanCheck that does not look at is_scanning.
AutoScanCheckIgnoresScanning ==
    /\ update_pc = "idle"
    /\ saved_ranges # <<>>
    /\ Len(passes) < scenario.passes
    /\ update_pc' = "launch"
    /\ UNCHANGED <<appVars, threadVars, parseVars, detailVars, recorderVars, clock,
                   scenario, history_run>>

\* update(): the auto-scan logic up to its test. is_scanning is read under the
\* progress lock, which is released before the test; the step is taken when
\* the test passes (should_scan && !is_scanning). Time is not measured in the
\* model: the interval may have elapsed at any frame.
AutoScanCheck ==
    /\ update_pc = "idle"
    /\ saved_ranges # <<>>
    /\ Len(passes) < scenario.passes
    /\ ~scan_progress.scanning
    /\ update_pc' = "launch"
    /\ UNCHANGED <<appVars, threadVars, parseVars, detailVars, recorderVars, clock,
                   scenario, history_run>>

\* update(): the timer-triggered launch that follows the test.
AutoScan ==
    /\ update_pc = "launch"
    /\ scan_all_saved_ranges
    /\ update_pc' = "idle"

\* The mutant of EnumerateErr that leaves the loop over the ranges.
EnumerateErrAborts(w) ==
    /\ passes[w].pc = "scan"
    /\ passes[w].ranges # <<>>
    /\ passes' = [passes EXCEPT ![w].ranges = <<>>,
                                ![w].enumerated = Append(@, [ok |-> FALSE, ips |-> {}])]
    /\ UNCHANGED <<appVars, refreshes, clock, nonScanVars>>

\* scan_by_range(&range).await fails: the error is printed and the loop goes on.
EnumerateErr(w) ==
    /\ passes[w].pc = "scan"
    /\ passes[w].ranges # <<>>
    /\ passes' = [passes EXCEPT ![w].ranges = Tail(@),
                                ![w].enumerated = Append(@, [ok |-> FALSE, ips |-> {}])]
    /\ UNCHANGED <<appVars, refreshes, clock, nonScanVars>>

\* scan_by_range(&range).await returns the miners it discovered in the range.
EnumerateOk(w) ==
    /\ passes[w].pc = "scan"
    /\ passes[w].ranges # <<>>
    /\ \E found \in SUBSET RangeOctets(Head(passes[w].ranges)) :
         passes' = [passes EXCEPT
                      ![w].ranges = Tail(@),
                      ![w].discovered = Ascending(found),
                      ![w].pc = IF found = {} THEN "scan" ELSE "progress",
                      ![w].enumerated = Append(@, [ok |-> TRUE, ips |-> found])]
    /\ UNCHANGED <<appVars, refreshes, clock, nonScanVars>>

\* for miner in discovered_miners: current_ip and scanned_ips, under the lock.
Progress(w) ==
    /\ passes[w].pc = "progress"
    /\ scan_progress' = [scan_progress EXCEPT
                           !.current_ip = Head(passes[w].discovered),
                           !.scanned_ips = @ + 1]
    /\ passes' = [passes EXCEPT ![w].pc = "fetch"]
    /\ UNCHANGED <<saved_ranges, miners, hashrate_history, refreshes, clock, nonScanVars>>

\* miner.get_data().await, the MinerInfo built from it, and the timestamp of
\* its history point (read before the history lock is taken).
Fetch(w) ==
    /\ passes[w].pc = "fetch"
    /\ \E topology \in scenario.topologies :
         passes' = [passes EXCEPT
                      ![w].data = MinerData(clock, topology),
                      ![w].timestamp = clock,
                      ![w].fetched = Append(@, <<Head(passes[w].discovered),
                                                 MinerData(clock, topology)>>),
                      ![w].pc = "history"]
    /\ clock' = clock + 1
    /\ UNCHANGED <<appVars, refreshes, nonScanVars>>

\* entry(ip).or_default() of the history map.
HistoryOf(map, ip) == IF ip \in DOMAIN map THEN map[ip] ELSE <<>>

MAX_HISTORY_POINTS == 288

\* The mutant of PushCoarse that drains one point too many.
PushCoarseDrainsTooMany(history, point) ==
    LET pushed == Append(history, point)
    IN  IF Len(pushed) > MAX_HISTORY_POINTS
        THEN SubSeq(pushed, Len(pushed) - MAX_HISTORY_POINTS + 2, Len(pushed))
        ELSE pushed

\* history.push(point) and the drain that keeps the last MAX_HISTORY_POINTS.
PushCoarse(history, point) ==
    LET pushed == Append(history, point)
    IN  IF Len(pushed) > MAX_HISTORY_POINTS
        THEN SubSeq(pushed, Len(pushed) - MAX_HISTORY_POINTS + 1, Len(pushed))
        ELSE pushed

RecordHashrate(map, ip, point) ==
    [a \in DOMAIN map \cup {ip} |->
        IF a = ip THEN PushCoarse(HistoryOf(map, ip), point) ELSE map[a]]

\* Record hashrate history, under the history lock: a point is pushed when
\* the hashrate string of the MinerInfo parses as a number, which "N/A" does
\* not.
History(w) ==
    /\ passes[w].pc = "history"
    /\ hashrate_history' =
         IF MinerInfo(Head(passes[w].discovered), passes[w].data).hashrate # NotAvailable
         THEN RecordHashrate(hashrate_history, Head(passes[w].discovered),
                             [timestamp |-> passes[w].timestamp,
                              hashrate |-> passes[w].data.seq])
         ELSE hashrate_history
    /\ passes' = [passes EXCEPT ![w].pc = "stage"]
    /\ UNCHANGED <<saved_ranges, miners, scan_progress, refreshes, clock, nonScanVars>>

\* The capacity of a fine buffer (the literal of draw_controls_and_graphs).
MAX_METRICS_POINTS == 9000

\* history.push(point); if history.len() > 9000 { history.remove(0); }
PushFine(history, point) ==
    LET pushed == Append(history, point)
    IN  IF Len(pushed) > MAX_METRICS_POINTS THEN Tail(pushed) ELSE pushed

RecordMetrics(map, ip, point) ==
    [a \in DOMAIN map \cup {ip} |->
        IF a = ip THEN PushFine(HistoryOf(map, ip), point) ELSE map[a]]

\* The addresses of the registry.
Ips(ms) == { ms[i].ip : i \in DOMAIN ms }

\* miners_list.iter().find(|m| m.ip == ip): the first entry of the address.
Find(ms, ip) ==
    IF ip \in Ips(ms)
    THEN CHOOSE i \in DOMAIN ms : ms[i].ip = ip /\ \A j \in 1..(i - 1) : ms[j].ip # ip
    ELSE 0

\* HashMap::remove.
Remove(map, ip) == [a \in DOMAIN map \ {ip} |-> map[a]]

\* The holder of the registry lock while no step is being taken. A thread
\* takes and releases the lock within one of its steps; the UI thread draws a
\* detail view under the lock (let miners_list = miners_arc.lock() up to
\* drop(miners_list)), so it holds it for as long as a write made while the
\* view is drawn lasts.
miners_lock == IF update_pc = "write" THEN "ui" ELSE "free"

\* The mutant of Insert that keeps a prior entry of the same key.
InsertKeepFirst(map, ip, info) ==
    [a \in DOMAIN map \cup {ip} |-> IF a \in DOMAIN map THEN map[a] ELSE info]

\* HashMap::insert: a prior entry of the same key is overwritten.
Insert(map, ip, info) ==
    [a \in DOMAIN map \cup {ip} |-> IF a = ip THEN info ELSE map[a]]

\* The mutant of Stage that also publishes the staged device in the registry.
StagePublishing(w) ==
    /\ passes[w].pc = "stage"
    /\ LET ip == Head(passes[w].discovered)
           staged == Insert(passes[w].new_miners, ip, MinerInfo(ip, passes[w].data))
       IN  /\ passes' = [passes EXCEPT
                           ![w].new_miners = staged,
                           ![w].discovered = Tail(@),
                           ![w].pc = IF Tail(passes[w].discovered) = <<>>
                                     THEN "scan" ELSE "progress"]
           /\ scan_progress' = [scan_progress EXCEPT
                                  !.found_miners = Cardinality(DOMAIN staged)]
           /\ miners' = LET ips == Ascending(DOMAIN staged)
                         IN  [i \in 1..Len(ips) |-> staged[ips[i]]]
    /\ UNCHANGED <<saved_ranges, hashrate_history, refreshes, clock, nonScanVars>>

\* new_miners.insert(ip, miner_info) and found_miners, under the progress lock.
Stage(w) ==
    /\ passes[w].pc = "stage"
    /\ LET ip == Head(passes[w].discovered)
           staged == Insert(passes[w].new_miners, ip, MinerInfo(ip, passes[w].data))
       IN  /\ passes' = [passes EXCEPT
                           ![w].new_miners = staged,
                           ![w].discovered = Tail(@),
                           ![w].pc = IF Tail(passes[w].discovered) = <<>>
                                     THEN "scan" ELSE "progress"]
           /\ scan_progress' = [scan_progress EXCEPT
                                  !.found_miners = Cardinality(DOMAIN staged)]
    /\ UNCHANGED <<saved_ranges, miners, hashrate_history, refreshes, clock, nonScanVars>>

\* The mutant of Swap that keeps the entries of the addresses the pass did not
\* stage.
SwapKeepsStale(w) ==
    /\ passes[w].pc = "scan"
    /\ passes[w].ranges = <<>>
    /\ miners_lock = "free"
    /\ miners' \in Orderings({ passes[w].new_miners[a] : a \in DOMAIN passes[w].new_miners }
                             \cup { miners[i] : i \in { j \in DOMAIN miners :
                                        miners[j].ip \notin DOMAIN passes[w].new_miners } })
    /\ passes' = [passes EXCEPT ![w].pc = "finish"]
    /\ UNCHANGED <<saved_ranges, scan_progress, hashrate_history, refreshes, clock, nonScanVars>>

\* The mutant of Swap that appends the staged entries to the registry.
SwapAppends(w) ==
    /\ passes[w].pc = "scan"
    /\ passes[w].ranges = <<>>
    /\ miners_lock = "free"
    /\ \E staged \in Orderings({ passes[w].new_miners[a] : a \in DOMAIN passes[w].new_miners }) :
         miners' = miners \o staged
    /\ passes' = [passes EXCEPT ![w].pc = "finish"]
    /\ UNCHANGED <<saved_ranges, scan_progress, hashrate_history, refreshes, clock, nonScanVars>>

\* The mutant of Swap that keeps the entry the registry holds of an address
\* the pass staged.
SwapKeepsOldEntries(w) ==
    /\ passes[w].pc = "scan"
    /\ passes[w].ranges = <<>>
    /\ miners_lock = "free"
    /\ miners' \in Orderings({ IF a \in Ips(miners) THEN miners[Find(miners, a)]
                                ELSE passes[w].new_miners[a] :
                                a \in DOMAIN passes[w].new_miners })
    /\ passes' = [passes EXCEPT ![w].pc = "finish"]
    /\ UNCHANGED <<saved_ranges, scan_progress, hashrate_history, refreshes, clock, nonScanVars>>

\* The mutant of Swap that drops the coarse buffers of the devices the pass
\* did not stage.
SwapPrunesHistory(w) ==
    /\ passes[w].pc = "scan"
    /\ passes[w].ranges = <<>>
    /\ miners_lock = "free"
    /\ miners' \in Orderings({ passes[w].new_miners[a] : a \in DOMAIN passes[w].new_miners })
    /\ hashrate_history' =
         [a \in DOMAIN hashrate_history \cap DOMAIN passes[w].new_miners |->
            hashrate_history[a]]
    /\ passes' = [passes EXCEPT ![w].pc = "finish"]
    /\ UNCHANGED <<saved_ranges, scan_progress, refreshes, clock, nonScanVars>>

\* *miners_lock = new_miners.into_values().collect(), under the registry lock.
Swap(w) ==
    /\ passes[w].pc = "scan"
    /\ passes[w].ranges = <<>>
    /\ miners_lock = "free"
    /\ miners' \in Orderings({ passes[w].new_miners[a] : a \in DOMAIN passes[w].new_miners })
    /\ passes' = [passes EXCEPT ![w].pc = "finish"]
    /\ UNCHANGED <<saved_ranges, scan_progress, hashrate_history, refreshes, clock, nonScanVars>>

\* The mutant of Finish that goes back to the swap.
FinishLoops(w) ==
    /\ passes[w].pc = "finish"
    /\ scan_progress' = [scan_progress EXCEPT !.scanning = FALSE, !.current_ip = 0]
    /\ passes' = [passes EXCEPT ![w].pc = "scan"]
    /\ UNCHANGED <<saved_ranges, miners, hashrate_history, refreshes, clock, nonScanVars>>

\* progress.scanning = false; progress.current_ip.clear(), under the lock.
Finish(w) ==
    /\ passes[w].pc = "finish"
    /\ scan_progress' = [scan_progress EXCEPT !.scanning = FALSE, !.current_ip = 0]
    /\ passes' = [passes EXCEPT ![w].pc = "done"]
    /\ UNCHANGED <<saved_ranges, miners, hashrate_history, refreshes, clock, nonScanVars>>

\* The column headers that are clicked in a run. With either direction of the
\* sort, a click on another column orders the entries no differently.
SortColumns == {"Ip"}

\* The key sort_miners compares two entries by.
SortKey(m, column) == IF column = "Ip" THEN m.ip ELSE m.hashrate

\* The comparator of sort_miners says that a goes before b.
SortsBefore(a, b, column, direction) ==
    IF direction = "Ascending" THEN SortKey(a, column) < SortKey(b, column)
    ELSE SortKey(a, column) > SortKey(b, column)

\* Vec::sort_by, a stable sort: an entry goes behind the entries it does not
\* sort before.
RECURSIVE SortBy(_, _, _)
SortBy(ms, column, direction) ==
    IF ms = <<>> THEN <<>>
    ELSE LET sorted == SortBy(SubSeq(ms, 1, Len(ms) - 1), column, direction)
             m == ms[Len(ms)]
             k == Cardinality({ i \in DOMAIN sorted :
                                  ~SortsBefore(m, sorted[i], column, direction) })
         IN  SubSeq(sorted, 1, k) \o <<m>> \o SubSeq(sorted, k + 1, Len(sorted))

\* sort_miners(column), on a click on a column header of the table: the
\* registry is sorted in place under its lock. The direction is toggled from
\* the last click, which the model does not keep: either direction may apply.
\* A registry of fewer than two entries is left as it is.
sort_miners(column) ==
    /\ update_pc = "idle"
    /\ Len(miners) > 1
    /\ \E direction \in {"Ascending", "Descending"} :
         miners' = SortBy(miners, column, direction)
    /\ UNCHANGED <<saved_ranges, scan_progress, hashrate_history, threadVars, clock,
                   nonScanVars>>

\* The modal of a view is drawn: the view is open and the registry holds an
\* entry of its address (current_miner is Some).
Drawn(ip) == ip \in detail_view_miners /\ ip \in Ips(miners)

\* The mutant of should_auto_refresh that is true one second early.
should_auto_refresh_early(ip) ==
    IF ip \in DOMAIN detail_refresh_times
    THEN detail_refresh_times[ip] >= scenario.detail_refresh_interval_secs - 1
    ELSE TRUE

\* should_auto_refresh: no instant is kept for the address, or the whole
\* seconds elapsed since it reach the interval.
should_auto_refresh(ip) ==
    IF ip \in DOMAIN detail_refresh_times
    THEN detail_refresh_times[ip] >= scenario.detail_refresh_interval_secs
    ELSE TRUE

\* The modal of a view is drawn in a frame in which its refresh is not due:
\* the frame in which it is due is AutoRefresh.
DrawnIdle(ip) == Drawn(ip) /\ ~should_auto_refresh(ip)

\* A click on the address of a row of the table: the view is opened unless a
\* view of the address is open already.
OpenDetail(ip) ==
    /\ update_pc = "idle"
    /\ ip \in Ips(miners)
    /\ ip \notin detail_view_miners
    /\ Cardinality(detail_view_miners) < scenario.views
    /\ detail_view_miners' = detail_view_miners \cup {ip}
    /\ UNCHANGED <<appVars, threadVars, parseVars, recorderVars, clock, scenario,
                   history_run, update_pc, detail_metrics_history, detail_refresh_times,
                   detail_graph_update_times, last_auto_refresh>>

\* The recording file of a device started at a time; the path carries the
\* address and the time of the start.
RecordingPath(ip, now) == <<ip, now>>

\* The file the operator exports the recording of a device to: a file that is
\* not a recording (no recording starts at time 0).
ExportPath(ip) == <<ip, 0>>

\* The recordings of the directory.
Recordings == { f \in DOMAIN files : f # ExportPath(f[1]) }

\* The dynamic columns of a header or of a row.
DynamicColumns(line) == line.board_hashrates + line.board_temps + line.fan_rpms

\* start_recording: the header is sized to the boards and fans of full_data.
HeaderOf(miner) ==
    [board_hashrates |-> miner.full_data.hashboards,
     board_temps |-> miner.full_data.hashboards,
     fan_rpms |-> miner.full_data.fans]

\* append_data_point: one value per entry of data.hashboards, twice, and one
\* per entry of data.fans.
RowOf(miner) ==
    [seq |-> miner.full_data.seq,
     board_hashrates |-> miner.full_data.hashboards,
     board_temps |-> miner.full_data.hashboards,
     fan_rpms |-> miner.full_data.fans]

IsRecording(ip) == ip \in DOMAIN recording_states /\ recording_states[ip].is_recording

\* The START RECORDING button of the detail view of a registry entry:
\* start_recording creates the file, writes the header and returns the state,
\* which is registered under the address. The view is being drawn: the file is
\* written under the registry lock.
StartRecording(ip) ==
    /\ update_pc = "idle"
    /\ DrawnIdle(ip)
    /\ ~IsRecording(ip)
    /\ Cardinality(Recordings \cup {RecordingPath(ip, clock)}) <= scenario.recordings
    /\ LET miner == miners[Find(miners, ip)]
           path == RecordingPath(ip, clock)
       IN  /\ files' = [f \in DOMAIN files \cup {path} |->
                          IF f = path THEN [header |-> <<HeaderOf(miner)>>, rows |-> <<>>]
                          ELSE files[f]]
           /\ recording_states' =
                [a \in DOMAIN recording_states \cup {ip} |->
                   IF a = ip
                   THEN [file_path |-> path, row_count |-> 0, is_recording |-> TRUE]
                   ELSE recording_states[a]]
    /\ update_pc' = "write"
    /\ UNCHANGED <<appVars, threadVars, detailVars, parseVars, clock, scenario, history_run,
                   append_call>>

\* The mutant of StartRecordingFails that registers the recording whose
\* header could not be written.
StartRecordingRegistersFailed(ip) ==
    /\ update_pc = "idle"
    /\ DrawnIdle(ip)
    /\ ~IsRecording(ip)
    /\ Cardinality(Recordings \cup {RecordingPath(ip, clock)}) <= scenario.recordings
    /\ files' = [f \in DOMAIN files \cup {RecordingPath(ip, clock)} |->
                   IF f = RecordingPath(ip, clock) THEN [header |-> <<>>, rows |-> <<>>]
                   ELSE files[f]]
    /\ recording_states' =
         [a \in DOMAIN recording_states \cup {ip} |->
            IF a = ip
            THEN [file_path |-> RecordingPath(ip, clock), row_count |-> 0,
                  is_recording |-> TRUE]
            ELSE recording_states[a]]
    /\ update_pc' = "write"
    /\ UNCHANGED <<appVars, threadVars, detailVars, parseVars, clock, scenario, history_run,
                   append_call>>

\* start_recording returns an Err: the directory or the file cannot be created
\* (nothing changes), or the header cannot be written to the created file.
StartRecordingFails(ip) ==
    /\ update_pc = "idle"
    /\ DrawnIdle(ip)
    /\ ~IsRecording(ip)
    /\ Cardinality(Recordings \cup {RecordingPath(ip, clock)}) <= scenario.recordings
    /\ \/ UNCHANGED files
       \/ files' = [f \in DOMAIN files \cup {RecordingPath(ip, clock)} |->
                      IF f = RecordingPath(ip, clock) THEN [header |-> <<>>, rows |-> <<>>]
                      ELSE files[f]]
    /\ update_pc' = "write"
    /\ UNCHANGED <<appVars, threadVars, detailVars, parseVars, clock, scenario, history_run,
                   recording_states, append_call>>

\* The STOP RECORDING button: stop_recording flips the flag.
StopRecording(ip) ==
    /\ update_pc = "idle"
    /\ DrawnIdle(ip)
    /\ IsRecording(ip)
    /\ recording_states' = [recording_states EXCEPT ![ip].is_recording = FALSE]
    /\ UNCHANGED <<appVars, threadVars, detailVars, parseVars, clock, scenario, history_run,
                   update_pc, files, append_call>>

\* The EXPORT TO CSV button, shown for a stopped recording with rows:
\* export_recording copies the file to the chosen destination (or fails, and
\* nothing is copied). The view is being drawn: the copy is made under the
\* registry lock.
ExportRecording(ip) ==
    /\ update_pc = "idle"
    /\ DrawnIdle(ip)
    /\ ip \in DOMAIN recording_states
    /\ ~recording_states[ip].is_recording
    /\ recording_states[ip].row_count > 0
    /\ \/ /\ recording_states[ip].file_path \in DOMAIN files
          /\ files' = [f \in DOMAIN files \cup {ExportPath(ip)} |->
                         IF f = ExportPath(ip) THEN files[recording_states[ip].file_path]
                         ELSE files[f]]
       \/ UNCHANGED files
    /\ update_pc' = "write"
    /\ UNCHANGED <<appVars, threadVars, detailVars, parseVars, clock, scenario, history_run,
                   recording_states, append_call>>

\* The mutant of AppendDataPoint that writes the row of a stopped recording.
AppendDataPointWritesStopped(ip, miner) ==
    IF miner.full_data # NoData
    THEN /\ recording_states[ip].file_path \in DOMAIN files
         /\ files' = [files EXCEPT ![recording_states[ip].file_path].rows =
                                       Append(@, RowOf(miner))]
         /\ recording_states' = [recording_states EXCEPT ![ip].row_count = @ + 1]
    ELSE UNCHANGED <<recording_states, files>>

\* append_data_point(recording, miner) returning Ok(()): nothing is done when
\* the recording is stopped or the entry has no full_data; else the file is
\* opened, the row is written to it and row_count is incremented.
AppendDataPoint(ip, miner) ==
    IF recording_states[ip].is_recording /\ miner.full_data # NoData
    THEN /\ recording_states[ip].file_path \in DOMAIN files
         /\ files' = [files EXCEPT ![recording_states[ip].file_path].rows =
                                       Append(@, RowOf(miner))]
         /\ recording_states' = [recording_states EXCEPT ![ip].row_count = @ + 1]
    ELSE UNCHANGED <<recording_states, files>>

\* The mutant of AppendDataPointFails that counts the row that was not written.
AppendDataPointFailsCounts(ip, miner) ==
    /\ recording_states[ip].is_recording
    /\ miner.full_data # NoData
    /\ recording_states' = [recording_states EXCEPT ![ip].row_count = @ + 1]
    /\ UNCHANGED files

\* append_data_point(recording, miner) returning an Err: the file cannot be
\* opened or the row cannot be written, and row_count is left as it is.
AppendDataPointFails(ip, miner) ==
    /\ recording_states[ip].is_recording
    /\ miner.full_data # NoData
    /\ UNCHANGED <<recording_states, files>>

\* A row is appended to the file of the recording of an address.
RowAppended(ip) ==
    LET path == recording_states[ip].file_path
    IN  /\ path \in DOMAIN files
        /\ path \in DOMAIN files'
        /\ Len(files'[path].rows) = Len(files[path].rows) + 1

\* How far an automatic refresh of an address, issued now, is from the last
\* one: it is the first, or a whole interval has passed, or less than an
\* interval has passed and the view was closed in between, or was not.
Apart(ip) ==
    IF ip \notin DOMAIN last_auto_refresh THEN "first"
    ELSE IF last_auto_refresh[ip].elapsed >= scenario.detail_refresh_interval_secs
         THEN "interval"
         ELSE IF last_auto_refresh[ip].closed THEN "reopened" ELSE "early"

\* A new refresh thread of an address. With the thread goes the reading of
\* the row that the frame that spawned it appended to the recording of the
\* address: NoData when it appended none.
RefreshThread(ip, appended) ==
    [pc |-> "fetch", ip |-> ip, data |-> NoData, outcome |-> "pending",
     appended |-> appended]

\* The point the graph logic samples from the entry the frame read.
MetricsPoint(miner, now) == [timestamp |-> now, total_hashrate |-> miner.full_data.seq]

\* The graph logic of a frame in which no instant is kept for the address:
\* the point is pushed and the instant is kept.
FirstGraphUpdate(ip) ==
    IF ip \in detail_graph_update_times
    THEN UNCHANGED <<detail_metrics_history, detail_graph_update_times>>
    ELSE /\ detail_metrics_history' =
              RecordMetrics(detail_metrics_history, ip,
                            MetricsPoint(miners[Find(miners, ip)], clock))
         /\ detail_graph_update_times' = detail_graph_update_times \cup {ip}

\* draw_controls_and_graphs of a view whose refresh is due: a refresh thread
\* is spawned and the instant of the address is set to now; the graph is
\* updated when the view is drawn for the first time; the entry as the frame
\* read it is appended to the active recording of the address, under the
\* registry lock.
AutoRefresh(ip) ==
    /\ update_pc = "idle"
    /\ Drawn(ip)
    /\ should_auto_refresh(ip)
    /\ Len(refreshes) < scenario.refreshes
    /\ detail_refresh_times' = Insert(detail_refresh_times, ip, 0)
    /\ last_auto_refresh' = Insert(last_auto_refresh, ip,
                                   [elapsed |-> 0, closed |-> FALSE, apart |-> Apart(ip),
                                    deleted |-> FALSE])
    /\ FirstGraphUpdate(ip)
    /\ IF IsRecording(ip)
       THEN /\ \/ AppendDataPoint(ip, miners[Find(miners, ip)])
               \/ AppendDataPointFails(ip, miners[Find(miners, ip)])
            /\ update_pc' = "write"
       ELSE UNCHANGED <<recording_states, files, update_pc>>
    /\ refreshes' =
         Append(refreshes,
                RefreshThread(ip, IF IsRecording(ip) /\ RowAppended(ip)
                                  THEN miners[Find(miners, ip)].full_data
                                  ELSE NoData))
    /\ UNCHANGED <<appVars, passes, clock, parseVars, detail_view_miners, scenario,
                   history_run, append_call>>

\* draw_controls_and_graphs of a view whose graph is due and whose refresh is
\* not: the cached reading is sampled into the fine buffer. The milliseconds
\* are not measured: the graph may be due at any frame.
UpdateGraph(ip) ==
    /\ update_pc = "idle"
    /\ DrawnIdle(ip)
    /\ Len(HistoryOf(detail_metrics_history, ip)) < scenario.points
    /\ detail_metrics_history' =
         RecordMetrics(detail_metrics_history, ip,
                       MetricsPoint(miners[Find(miners, ip)], clock))
    /\ detail_graph_update_times' = detail_graph_update_times \cup {ip}
    /\ UNCHANGED <<appVars, threadVars, parseVars, recorderVars, clock, scenario,
                   history_run, update_pc, detail_view_miners, detail_refresh_times,
                   last_auto_refresh>>

\* The Refresh button of the detail view: a refresh thread is spawned and the
\* instant of the address is set to now.
ManualRefresh(ip) ==
    /\ update_pc = "idle"
    /\ DrawnIdle(ip)
    /\ Len(refreshes) < scenario.refreshes
    /\ refreshes' = Append(refreshes, RefreshThread(ip, NoData))
    /\ detail_refresh_times' = Insert(detail_refresh_times, ip, 0)
    /\ UNCHANGED <<appVars, passes, clock, parseVars, recorderVars, scenario, history_run,
                   update_pc, detail_view_miners, detail_metrics_history,
                   detail_graph_update_times, last_auto_refresh>>

\* drop(miners_list): the write made while the view was drawn has returned
\* and the registry lock is released.
EndWrite ==
    /\ update_pc = "write"
    /\ update_pc' = "idle"
    /\ UNCHANGED <<appVars, threadVars, parseVars, detailVars, recorderVars, clock,
                   scenario, history_run>>

\* The mutant of CloseDetail that keeps the recording of the closed view.
CloseDetailKeepsRecording(ip) ==
    /\ update_pc = "idle"
    /\ DrawnIdle(ip)
    /\ detail_view_miners' = detail_view_miners \ {ip}
    /\ detail_metrics_history' = Remove(detail_metrics_history, ip)
    /\ detail_refresh_times' = Remove(detail_refresh_times, ip)
    /\ detail_graph_update_times' = detail_graph_update_times \ {ip}
    /\ last_auto_refresh' =
         [a \in DOMAIN last_auto_refresh |->
            IF a = ip
            THEN [last_auto_refresh[a] EXCEPT
                    !.closed = TRUE,
                    !.deleted = /\ ip \in DOMAIN recording_states
                                /\ recording_states[ip].file_path \in DOMAIN files]
            ELSE last_auto_refresh[a]]
    /\ UNCHANGED <<recording_states, files>>
    /\ UNCHANGED <<appVars, threadVars, parseVars, clock, scenario, history_run, update_pc,
                   append_call>>

\* The window of a view is closed: the view is removed with the fine buffer
\* and the instants of its address, and the recording of the address is
\* removed and its file deleted (delete_recording).
CloseDetail(ip) ==
    /\ update_pc = "idle"
    /\ DrawnIdle(ip)
    /\ detail_view_miners' = detail_view_miners \ {ip}
    /\ detail_metrics_history' = Remove(detail_metrics_history, ip)
    /\ detail_refresh_times' = Remove(detail_refresh_times, ip)
    /\ detail_graph_update_times' = detail_graph_update_times \ {ip}
    /\ last_auto_refresh' =
         [a \in DOMAIN last_auto_refresh |->
            IF a = ip
            THEN [last_auto_refresh[a] EXCEPT
                    !.closed = TRUE,
                    !.deleted = /\ ip \in DOMAIN recording_states
                                /\ recording_states[ip].file_path \in DOMAIN files]
            ELSE last_auto_refresh[a]]
    /\ recording_states' = Remove(recording_states, ip)
    /\ files' = IF ip \in DOMAIN recording_states
                THEN Remove(files, recording_states[ip].file_path)
                ELSE files
    /\ UNCHANGED <<appVars, threadVars, parseVars, clock, scenario, history_run, update_pc,
                   append_call>>

\* A second passes: the seconds elapsed since each instant grow by one. The
\* seconds are counted up to the interval, beyond which they make no
\* difference.
Tick ==
    /\ \/ \E ip \in DOMAIN detail_refresh_times :
            detail_refresh_times[ip] < scenario.detail_refresh_interval_secs
       \/ \E ip \in DOMAIN last_auto_refresh :
            last_auto_refresh[ip].elapsed < scenario.detail_refresh_interval_secs
    /\ detail_refresh_times' =
         [ip \in DOMAIN detail_refresh_times |->
            IF detail_refresh_times[ip] < scenario.detail_refresh_interval_secs
            THEN detail_refresh_times[ip] + 1 ELSE detail_refresh_times[ip]]
    /\ last_auto_refresh' =
         [ip \in DOMAIN last_auto_refresh |->
            IF last_auto_refresh[ip].elapsed < scenario.detail_refresh_interval_secs
            THEN [last_auto_refresh[ip] EXCEPT !.elapsed = @ + 1]
            ELSE last_auto_refresh[ip]]
    /\ UNCHANGED <<appVars, threadVars, parseVars, recorderVars, clock, scenario,
                   history_run, update_pc, detail_view_miners, detail_metrics_history,
                   detail_graph_update_times>>

\* The mutant of RefreshFail that drops the entry of the device that did not
\* answer.
RefreshFailEvicts(t) ==
    /\ refreshes[t].pc = "fetch"
    /\ miners_lock = "free"
    /\ refreshes' = [refreshes EXCEPT ![t].pc = "done", ![t].outcome = "no_miner"]
    /\ miners' = SelectSeq(miners, LAMBDA m : m.ip # refreshes[t].ip)
    /\ UNCHANGED <<saved_ranges, scan_progress, hashrate_history, passes, clock, nonScanVars>>

\* factory.get_miner(ip).await is an Err or None: the thread ends.
RefreshFail(t) ==
    /\ refreshes[t].pc = "fetch"
    /\ refreshes' = [refreshes EXCEPT ![t].pc = "done", ![t].outcome = "no_miner"]
    /\ UNCHANGED <<appVars, passes, clock, nonScanVars>>

\* factory.get_miner(ip).await and miner_obj.get_data().await.
RefreshFetch(t) ==
    /\ refreshes[t].pc = "fetch"
    /\ \E topology \in scenario.topologies :
         refreshes' = [refreshes EXCEPT ![t].pc = "apply",
                                        ![t].data = MinerData(clock, topology)]
    /\ clock' = clock + 1
    /\ UNCHANGED <<appVars, passes, nonScanVars>>

\* The mutant of UpdateOne that inserts the device when it is absent.
UpdateOrInsert(ms, ip, data) ==
    IF \A i \in DOMAIN ms : ms[i].ip # ip
    THEN Append(ms, [ip |-> ip, hashrate |-> data.seq, full_data |-> data])
    ELSE [i \in DOMAIN ms |-> IF ms[i].ip = ip THEN [ms[i] EXCEPT !.full_data = data]
                                                ELSE ms[i]]

\* if let Some(existing) = find(..) { existing.full_data = Some(data) }
UpdateOne(ms, ip, data) ==
    IF Find(ms, ip) = 0 THEN ms
    ELSE [ms EXCEPT ![Find(ms, ip)].full_data = data]

\* Update the miner in the main list, under the registry lock.
RefreshApply(t) ==
    /\ refreshes[t].pc = "apply"
    /\ miners_lock = "free"
    /\ miners' = UpdateOne(miners, refreshes[t].ip, refreshes[t].data)
    /\ refreshes' = [refreshes EXCEPT
                       ![t].pc = "done",
                       ![t].outcome = IF Find(miners, refreshes[t].ip) = 0
                                      THEN "absent" ELSE "updated"]
    /\ UNCHANGED <<saved_ranges, scan_progress, hashrate_history, passes, clock, nonScanVars>>

PassStep(w) ==
    \/ EnumerateErr(w)
    \/ EnumerateOk(w)
    \/ Progress(w)
    \/ Fetch(w)
    \/ History(w)
    \/ Stage(w)
    \/ Swap(w)
    \/ Finish(w)

RefreshStep(t) ==
    \/ RefreshFail(t)
    \/ RefreshFetch(t)
    \/ RefreshApply(t)

Next ==
    \/ ManualScan
    \/ AutoScanCheck
    \/ AutoScan
    \/ \E column \in SortColumns : sort_miners(column)
    \/ \E w \in DOMAIN passes : PassStep(w)

Spec == Init /\ [][Next]_vars

(***************************************************************************)
(* The detail view of a device with its recorder                           *)
(***************************************************************************)
\* The refresh threads and the recording files of one run of the recorder.
MaxRecorderRefreshes == 2
MaxRecordings == 2

\* The points sampled into the fine buffer of a view between two refreshes.
MaxPoints == 2

\* The topologies a device reports while it is recorded: all of its boards,
\* or one board less.
RecorderTopologies == { FixedTopology, [hashboards |-> 2, fans |-> 2, hashrate |-> TRUE] }

\* The application after one pass over the saved ranges has found the devices
\* at the addresses 1..found in the first range and nothing in the second; no
\* detail view has been opened.
AfterOnePass(topologies, found) ==
    /\ saved_ranges \in SavedRangeLists
    /\ \E reported \in [1..found -> topologies] :
         LET staged == [ip \in 1..found |-> MinerInfo(ip, MinerData(ip, reported[ip]))]
         IN  /\ miners \in Orderings({ staged[ip] : ip \in 1..found })
             /\ passes = <<[pc |-> "done", ranges |-> <<>>, discovered |-> <<>>,
                            data |-> staged[found].full_data, timestamp |-> found,
                            new_miners |-> staged,
                            enumerated |-> <<[ok |-> TRUE, ips |-> 1..found],
                                             [ok |-> TRUE, ips |-> {}]>>,
                            fetched |-> [ip \in 1..found |->
                                           <<ip, staged[ip].full_data>>]]>>
    /\ scan_progress = [scanning |-> FALSE, current_ip |-> 0,
                        total_ips |-> SumTotalIps(saved_ranges),
                        scanned_ips |-> found, found_miners |-> found]
    /\ hashrate_history =
         [ip \in 1..found |-> <<[timestamp |-> ip, hashrate |-> ip]>>]
    /\ clock = found + 1
    /\ refreshes = <<>>
    /\ detail_view_miners = {}
    /\ detail_refresh_times = [ip \in {} |-> 0]
    /\ detail_graph_update_times = {}
    /\ last_auto_refresh = [ip \in {} |-> 0]
    /\ append_call = NoAppendCall
    /\ update_pc = "idle"
    /\ detail_metrics_history = [ip \in {} |-> <<>>]
    /\ recording_states = [ip \in {} |-> <<>>]
    /\ files = [path \in {} |-> <<>>]
    /\ history_run = NoHistoryRun
    /\ ip_range_start = Subnet \o <<"0">>
    /\ ip_range_end = Subnet \o <<"2", "5", "5">>
    /\ parse_result = NotRun
    /\ total_result = NotRun
    /\ parse_pc = "input"
    /\ range_encoding = <<>>
    /\ count_result = NotCounted

RecorderInit ==
    /\ AfterOnePass(RecorderTopologies, 1)
    /\ scenario = [passes |-> 1, refreshes |-> MaxRecorderRefreshes,
                   recordings |-> MaxRecordings, topologies |-> RecorderTopologies,
                   views |-> 1, points |-> MaxPoints,
                   detail_refresh_interval_secs |-> RefreshInterval]

RecorderNext ==
    \/ \E ip \in Ips(miners) : OpenDetail(ip)
    \/ \E ip \in Ips(miners) : CloseDetail(ip)
    \/ \E ip \in Ips(miners) : AutoRefresh(ip)
    \/ \E ip \in Ips(miners) : ManualRefresh(ip)
    \/ \E ip \in Ips(miners) : StartRecording(ip)
    \/ \E ip \in Ips(miners) : StartRecordingFails(ip)
    \/ \E ip \in Ips(miners) : StopRecording(ip)
    \/ \E ip \in Ips(miners) : ExportRecording(ip)
    \/ EndWrite
    \/ Tick
    \/ \E t \in DOMAIN refreshes : RefreshStep(t)

SpecRecorder == RecorderInit /\ [][RecorderNext]_vars

(***************************************************************************)
(* The detail views of two devices                                         *)
(***************************************************************************)
\* The devices of the run, the views open at a time and the refresh threads
\* and recordings of the run.
MaxDevices == 2
MaxViews == 2
MaxDetailRefreshes == 2

\* Two devices are registered; their views are opened, refreshed as they are
\* first drawn, recorded and closed.
DetailInit ==
    /\ AfterOnePass({FixedTopology}, MaxDevices)
    /\ scenario = [passes |-> 1, refreshes |-> MaxDetailRefreshes,
                   recordings |-> MaxRecordings, topologies |-> {FixedTopology},
                   views |-> MaxViews, points |-> MaxPoints,
                   detail_refresh_interval_secs |-> RefreshInterval]

DetailNext ==
    \/ \E ip \in Ips(miners) : OpenDetail(ip)
    \/ \E ip \in Ips(miners) : CloseDetail(ip)
    \/ \E ip \in Ips(miners) : AutoRefresh(ip)
    \/ \E ip \in Ips(miners) : UpdateGraph(ip)
    \/ \E ip \in Ips(miners) : StartRecording(ip)
    \/ \E ip \in Ips(miners) : StopRecording(ip)
    \/ EndWrite
    \/ \E t \in DOMAIN refreshes : RefreshStep(t)

SpecDetail == DetailInit /\ [][DetailNext]_vars

(***************************************************************************)
(* Calls of append_data_point                                              *)
(***************************************************************************)
\* The rows a recording may hold when append_data_point is called.
MaxRows == 2

\* A recording of the device at address 1, active or stopped, with its rows
\* in its file, or with its file removed from the directory; and a MinerInfo
\* of the address, with or without full_data.
AppendInit ==
    /\ detail_view_miners = {}
    /\ detail_refresh_times = [ip \in {} |-> 0]
    /\ detail_graph_update_times = {}
    /\ last_auto_refresh = [ip \in {} |-> 0]
    /\ detail_metrics_history = [ip \in {} |-> <<>>]
    /\ history_run = NoHistoryRun
    /\ miners = <<>>
    /\ scan_progress = IdleProgress
    /\ hashrate_history = [ip \in {} |-> <<>>]
    /\ passes = <<>>
    /\ refreshes = <<>>
    /\ update_pc = "idle"
    /\ clock = 1
    /\ scenario = [passes |-> 0, refreshes |-> 0, recordings |-> 1,
                   topologies |-> RecorderTopologies, views |-> 0, points |-> 0,
                   detail_refresh_interval_secs |-> RefreshInterval]
    /\ \E started \in RecorderTopologies, rows \in 0..MaxRows, present \in BOOLEAN :
         /\ recording_states \in
              { [a \in {1} |-> [file_path |-> RecordingPath(1, 1), row_count |-> rows,
                                is_recording |-> active]] : active \in BOOLEAN }
         /\ files =
              IF present
              THEN [f \in {RecordingPath(1, 1)} |->
                      [header |-> <<HeaderOf(MinerInfo(1, MinerData(1, started)))>>,
                       rows |-> [i \in 1..rows |->
                                   RowOf(MinerInfo(1, MinerData(i, started)))]]]
              ELSE [f \in {} |-> <<>>]
    /\ append_call \in
         { [called |-> FALSE, ip |-> 1, miner |-> MinerInfo(1, data), result |-> "none"] :
             data \in {NoData} \cup { MinerData(MaxRows + 1, t) : t \in RecorderTopologies } }
    /\ saved_ranges \in SavedRangeLists
    /\ ip_range_start = Subnet \o <<"0">>
    /\ ip_range_end = Subnet \o <<"2", "5", "5">>
    /\ parse_result = NotRun
    /\ total_result = NotRun
    /\ parse_pc = "input"
    /\ range_encoding = <<>>
    /\ count_result = NotCounted

\* The call returns Ok(()).
AppendReturnsOk ==
    /\ ~append_call.called
    /\ AppendDataPoint(append_call.ip, append_call.miner)
    /\ append_call' = [append_call EXCEPT !.called = TRUE, !.result = "Ok"]
    /\ UNCHANGED <<appVars, threadVars, parseVars, detailVars, clock, scenario, history_run,
                   update_pc>>

\* The call returns an Err.
AppendReturnsErr ==
    /\ ~append_call.called
    /\ AppendDataPointFails(append_call.ip, append_call.miner)
    /\ append_call' = [append_call EXCEPT !.called = TRUE, !.result = "Err"]
    /\ UNCHANGED <<appVars, threadVars, parseVars, detailVars, clock, scenario, history_run,
                   update_pc>>

AppendNext == AppendReturnsOk \/ AppendReturnsErr

SpecAppend == AppendInit /\ [][AppendNext]_vars

(***************************************************************************)
(* A scan pass beside the detail view of a device and its refresh threads  *)
(***************************************************************************)
\* One more pass is launched after the first; one view is opened.
RefreshInit ==
    /\ AfterOnePass({FixedTopology}, 1)
    /\ scenario = [passes |-> MaxPasses, refreshes |-> MaxRefreshes, recordings |-> 0,
                   topologies |-> {FixedTopology}, views |-> 1, points |-> 0,
                   detail_refresh_interval_secs |-> RefreshInterval]

RefreshNext ==
    \/ ManualScan
    \/ AutoScanCheck
    \/ AutoScan
    \/ \E column \in SortColumns : sort_miners(column)
    \/ \E w \in DOMAIN passes : PassStep(w)
    \/ \E ip \in Ips(miners) : OpenDetail(ip)
    \/ \E ip \in Ips(miners) : AutoRefresh(ip)
    \/ \E ip \in Ips(miners) : ManualRefresh(ip)
    \/ \E t \in DOMAIN refreshes : RefreshStep(t)

SpecRefresh == RefreshInit /\ [][RefreshNext]_vars

(***************************************************************************)
(* One scan pass over devices that may report no hashrate                  *)
(***************************************************************************)
PassInit ==
    /\ AppInit
    /\ scenario = [passes |-> 1, refreshes |-> 0, recordings |-> 0,
                   topologies |-> {FixedTopology, NoHashrate}, views |-> 0, points |-> 0,
                   detail_refresh_interval_secs |-> RefreshInterval]
    /\ saved_ranges \in SavedRangeLists
    /\ ip_range_start = Subnet \o <<"0">>
    /\ ip_range_end = Subnet \o <<"2", "5", "5">>
    /\ parse_result = NotRun
    /\ total_result = NotRun
    /\ parse_pc = "input"
    /\ range_encoding = <<>>
    /\ count_result = NotCounted

PassNext ==
    \/ ManualScan
    \/ AutoScanCheck
    \/ AutoScan
    \/ \E w \in DOMAIN passes : PassStep(w)

SpecPass == PassInit /\ [][PassNext]_vars

(***************************************************************************)
(* The scan passes under fair scheduling                                    *)
(***************************************************************************)
\* Every thread that can take a step takes one in the end: each await of a
\* pass returns and each lock it waits for is released.
Fairness == \A w \in 1..MaxPasses : WF_vars(w \in DOMAIN passes /\ PassStep(w))

SpecFair == Init /\ [][Next]_vars /\ Fairness

(***************************************************************************)
(* The locks of the registry, the progress and the coarse history          *)
(***************************************************************************)
\* In this run a thread is kept as its position in the script of its lock
\* operations: passes holds the pass threads, each with the number of devices
\* its ranges report, refreshes the refresh threads, and update_pc is the
\* position of the render loop in its frame.

\* The devices the ranges of a pass report.
MaxLockDevices == 1

LockNames == {"miners", "scan_progress", "hashrate_history"}

\* mutex.lock().unwrap(), and the end of the scope of the guard (or drop).
Lock(l) == [op |-> "lock", lock |-> l]
Unlock(l) == [op |-> "unlock", lock |-> l]

\* An .await of the thread: a call of the device, made on the runtime.
Await == [op |-> "await", lock |-> "none"]

\* A write of a recording file by the render loop.
WriteFile == [op |-> "write", lock |-> "none"]

\* thread::spawn of a scan pass and of a refresh.
SpawnPass == [op |-> "spawn_pass", lock |-> "none"]
SpawnRefresh == [op |-> "spawn_refresh", lock |-> "none"]

\* The mutant of PassDevice that records the history inside the block of the
\* progress lock.
PassDeviceNestsHistory ==
    << Lock("scan_progress"),
       Await,
       Lock("hashrate_history"), Unlock("hashrate_history"),
       Unlock("scan_progress"),
       Lock("scan_progress"), Unlock("scan_progress") >>

\* The body of `for miner in discovered_miners`: the block of the progress
\* lock, get_data, the block of the history lock (entered when the hashrate
\* parses; the device here reports one), and the progress guard of
\* found_miners, which lives to the end of the body.
PassDevice ==
    << Lock("scan_progress"), Unlock("scan_progress"),
       Await,
       Lock("hashrate_history"), Unlock("hashrate_history"),
       Lock("scan_progress"), Unlock("scan_progress") >>

RECURSIVE PassDevices(_)
PassDevices(devices) ==
    IF devices = 0 THEN <<>> ELSE PassDevice \o PassDevices(devices - 1)

\* The thread of scan_ranges: scan_by_range, the devices, the block of the
\* registry lock of the swap and the block of the progress lock after it.
PassScript(devices) ==
    <<Await>> \o PassDevices(devices)
    \o << Lock("miners"), Unlock("miners"),
          Lock("scan_progress"), Unlock("scan_progress") >>

\* The thread of a refresh: get_miner and get_data, then the registry lock.
RefreshScript == << Await, Lock("miners"), Unlock("miners") >>

\* update(): the block that reads progress.scanning for the repaint.
RepaintCheck == << Lock("scan_progress"), Unlock("scan_progress") >>

\* draw_miner_detail_modal of an open view: the registry lock is taken, the
\* refresh that is due is spawned and the row of the recording is written,
\* and the guard is dropped after the window is drawn.
DetailModal == << Lock("miners"), SpawnRefresh, WriteFile, Unlock("miners") >>

\* draw_scan_and_ranges_card: the progress is read in a block; the click on
\* SCAN ALL runs scan_all_saved_ranges, which sets the progress in a block
\* and spawns the pass.
ScanCard ==
    << Lock("scan_progress"), Unlock("scan_progress"),
       Lock("scan_progress"), Unlock("scan_progress"), SpawnPass >>

\* The slice of entries handed to draw_miners_table: the renderer takes a
\* point-in-time copy of the registry and does not hold its lock while it
\* draws.
TableSnapshot == << Lock("miners"), Unlock("miners") >>

\* draw_miners_table: the progress lock, from the test of the empty table to
\* drop(progress).
TableProgress == << Lock("scan_progress"), Unlock("scan_progress") >>

\* sort_miners, on a click on a column header, and the auto-scan logic that
\* ends update(): the registry lock of the sort, and the progress lock of the
\* read of scanning.
SortAndAutoScan ==
    << Lock("miners"), Unlock("miners"),
       Lock("scan_progress"), Unlock("scan_progress"), SpawnPass >>

\* One frame of the render loop.
RenderScript ==
    RepaintCheck \o DetailModal \o ScanCard \o TableSnapshot \o TableProgress
    \o SortAndAutoScan

\* The locks a thread holds at a position of its script.
HeldAt(script, pc) ==
    { l \in LockNames :
        \E i \in 1..(pc - 1) :
            /\ script[i] = Lock(l)
            /\ \A j \in (i + 1)..(pc - 1) : script[j] # Unlock(l) }

\* The activities: the render loop and the threads it has spawned.
Activities ==
    {<<"render", 0>>}
    \cup { <<"pass", w>> : w \in DOMAIN passes }
    \cup { <<"refresh", t>> : t \in DOMAIN refreshes }

ScriptOf(a) ==
    IF a[1] = "render" THEN RenderScript
    ELSE IF a[1] = "pass" THEN PassScript(passes[a[2]].devices)
    ELSE RefreshScript

PcOf(a) ==
    IF a[1] = "render" THEN update_pc
    ELSE IF a[1] = "pass" THEN passes[a[2]].pc
    ELSE refreshes[a[2]].pc

HeldBy(a) == HeldAt(ScriptOf(a), PcOf(a))

\* The thread has run its script to the end.
Finished(a) == PcOf(a) > Len(ScriptOf(a))

\* The activity is at a lock() of a mutex another activity holds.
Blocked(a) ==
    /\ ~Finished(a)
    /\ ScriptOf(a)[PcOf(a)].op = "lock"
    /\ \E b \in Activities \ {a} : ScriptOf(a)[PcOf(a)].lock \in HeldBy(b)

\* The application as it is constructed: no thread is spawned and the render
\* loop is at the top of its first frame.
LocksInit ==
    /\ passes = <<>>
    /\ refreshes = <<>>
    /\ update_pc = 1
    /\ miners = <<>>
    /\ scan_progress = IdleProgress
    /\ hashrate_history = [ip \in {} |-> <<>>]
    /\ detail_view_miners = {}
    /\ detail_refresh_times = [ip \in {} |-> 0]
    /\ detail_graph_update_times = {}
    /\ last_auto_refresh = [ip \in {} |-> 0]
    /\ detail_metrics_history = [ip \in {} |-> <<>>]
    /\ recording_states = [ip \in {} |-> <<>>]
    /\ files = [path \in {} |-> <<>>]
    /\ append_call = NoAppendCall
    /\ history_run = NoHistoryRun
    /\ clock = 1
    /\ scenario = [passes |-> MaxPasses, refreshes |-> MaxRefreshes, recordings |-> 0,
                   topologies |-> {FixedTopology}, views |-> 1, points |-> 0,
                   detail_refresh_interval_secs |-> RefreshInterval]
    /\ saved_ranges \in SavedRangeLists
    /\ ip_range_start = Subnet \o <<"0">>
    /\ ip_range_end = Subnet \o <<"2", "5", "5">>
    /\ parse_result = NotRun
    /\ total_result = NotRun
    /\ parse_pc = "input"
    /\ range_encoding = <<>>
    /\ count_result = NotCounted

\* What a step of the lock scripts leaves alone.
nonLockVars ==
    <<saved_ranges, miners, scan_progress, hashrate_history, parseVars, detailVars,
      recorderVars, clock, scenario, history_run>>

\* A step of a pass thread; a lock() waits for the mutex to be free.
LockPassStep(w) ==
    /\ ~Finished(<<"pass", w>>)
    /\ ~Blocked(<<"pass", w>>)
    /\ passes' = [passes EXCEPT ![w].pc = @ + 1]
    /\ UNCHANGED <<refreshes, update_pc, nonLockVars>>

\* A step of a refresh thread; when get_miner finds no device the thread
\* ends without taking the registry lock.
LockRefreshStep(t) ==
    /\ ~Finished(<<"refresh", t>>)
    /\ ~Blocked(<<"refresh", t>>)
    /\ \/ refreshes' = [refreshes EXCEPT ![t].pc = @ + 1]
       \/ /\ RefreshScript[refreshes[t].pc] = Await
          /\ refreshes' = [refreshes EXCEPT ![t].pc = Len(RefreshScript) + 1]
    /\ UNCHANGED <<passes, update_pc, nonLockVars>>

\* A step of the render loop; after the last step of a frame the next frame
\* begins. A spawn is made when its button is clicked or its timer is due,
\* and not made otherwise.
LockRenderStep ==
    /\ ~Blocked(<<"render", 0>>)
    /\ update_pc' = IF update_pc = Len(RenderScript) THEN 1 ELSE update_pc + 1
    /\ \/ /\ RenderScript[update_pc] = SpawnPass
          /\ Len(passes) < scenario.passes
          /\ \E devices \in 0..MaxLockDevices :
               passes' = Append(passes, [pc |-> 1, devices |-> devices])
          /\ UNCHANGED refreshes
       \/ /\ RenderScript[update_pc] = SpawnRefresh
          /\ Len(refreshes) < scenario.refreshes
          /\ refreshes' = Append(refreshes, [pc |-> 1])
          /\ UNCHANGED passes
       \/ UNCHANGED <<passes, refreshes>>
    /\ UNCHANGED nonLockVars

LocksNext ==
    \/ LockRenderStep
    \/ \E w \in DOMAIN passes : LockPassStep(w)
    \/ \E t \in DOMAIN refreshes : LockRefreshStep(t)

SpecLocks == LocksInit /\ [][LocksNext]_vars

(***************************************************************************)
(* The history buffers filled beyond their capacity                        *)
(***************************************************************************)
\* The number of points inserted beyond the capacity of a buffer.
MaxOverflow == 3

\* A run that fills one buffer of one device: the coarse buffer by the
\* discoveries of scan passes, or the fine buffer by the graph ticks of the
\* device's detail view.
HistoryInit ==
    /\ detail_metrics_history = [ip \in {} |-> <<>>]
    /\ history_run \in [family : {"coarse", "fine"}, ip : {1, 2}, inserted : {0}]
    /\ recording_states = [ip \in {} |-> <<>>]
    /\ files = [path \in {} |-> <<>>]
    /\ scenario = [passes |-> 0, refreshes |-> 0, recordings |-> 0,
                   topologies |-> {FixedTopology}]
    /\ miners = <<>>
    /\ scan_progress = IdleProgress
    /\ hashrate_history = [ip \in {} |-> <<>>]
    /\ passes = <<>>
    /\ refreshes = <<>>
    /\ detail_view_miners = {}
    /\ detail_refresh_times = [ip \in {} |-> 0]
    /\ detail_graph_update_times = {}
    /\ last_auto_refresh = [ip \in {} |-> 0]
    /\ append_call = NoAppendCall
    /\ update_pc = "idle"
    /\ clock = 1
    /\ saved_ranges \in SavedRangeLists
    /\ ip_range_start = Subnet \o <<"0">>
    /\ ip_range_end = Subnet \o <<"2", "5", "5">>
    /\ parse_result = NotRun
    /\ total_result = NotRun
    /\ parse_pc = "input"
    /\ range_encoding = <<>>
    /\ count_result = NotCounted

\* One more discovery of the device: its point is pushed as History(w) pushes it.
AppendCoarse ==
    /\ history_run.family = "coarse"
    /\ history_run.inserted < MAX_HISTORY_POINTS + MaxOverflow
    /\ hashrate_history' =
         RecordHashrate(hashrate_history, history_run.ip,
                        [timestamp |-> clock, hashrate |-> clock])
    /\ clock' = clock + 1
    /\ history_run' = [history_run EXCEPT !.inserted = @ + 1]
    /\ UNCHANGED <<saved_ranges, miners, scan_progress, threadVars, parseVars, detailVars,
                   recorderVars, scenario, update_pc>>

\* One more graph tick of the detail view (should_update_graph): the cached
\* reading is sampled into the fine buffer.
AppendFine ==
    /\ history_run.family = "fine"
    /\ history_run.inserted < MAX_METRICS_POINTS + MaxOverflow
    /\ detail_metrics_history' =
         RecordMetrics(detail_metrics_history, history_run.ip,
                       [timestamp |-> clock, total_hashrate |-> 0])
    /\ clock' = clock + 1
    /\ history_run' = [history_run EXCEPT !.inserted = @ + 1]
    /\ UNCHANGED <<appVars, threadVars, parseVars, recorderVars, scenario, update_pc,
                   detail_view_miners, detail_refresh_times, detail_graph_update_times,
                   last_auto_refresh>>

HistoryNext == AppendCoarse \/ AppendFine

SpecHistory == HistoryInit /\ [][HistoryNext]_vars

(***************************************************************************)
(* The inputs of the parser: addresses assembled from octet texts.         *)
(***************************************************************************)
\* Third-octet texts, as the operator may type them (the first two octets of
\* every input are "10" and "0").
ThirdOctets == { <<"1", "0">>, <<"8", "1">>, <<"8", "2">>, <<"x">>, <<>> }

\* Last-octet numbers, written canonically: the ends of the u8 range, the
\* places where the number of digits changes, and some values in between.
OctetSamples == {0, 1, 5, 9, 10, 99, 100, 200, 254, 255}

\* Last-octet texts that are not canonical numbers in [0,255].
OddOctets == { <<"2", "5", "6">>, <<"3", "0", "0">>, <<"x">>, <<>>,
               <<"0", "7">>, <<"+", "5">>, <<"-", "1">> }

LastOctets == { FormatNat(n) : n \in OctetSamples } \cup OddOctets

Dotted(a, b, c, d) == a \o <<".">> \o b \o <<".">> \o c \o <<".">> \o d

\* Four-part addresses under the subnets 10.0.<third>, and addresses with three
\* and with five parts.
AddressInputs ==
    { Dotted(<<"1", "0">>, <<"0">>, third, last) : third \in ThirdOctets, last \in LastOctets }
    \cup { <<"1", "0">> \o <<".">> \o <<"0">> \o <<".">> \o third :
             third \in { <<"8", "1">>, <<"8", "2">> } }
    \cup { Dotted(<<"1", "0">>, <<"0">>, third, <<"5">>) \o <<".", "9">> :
             third \in { <<"8", "1">>, <<"8", "2">> } }

ParseInit ==
    /\ ip_range_start \in AddressInputs
    /\ ip_range_end \in AddressInputs
    /\ parse_result = NotRun
    /\ total_result = NotRun
    /\ parse_pc = "input"
    /\ range_encoding = <<>>
    /\ count_result = NotCounted
    /\ AppInit
    /\ scenario = [passes |-> 0, refreshes |-> 0, recordings |-> 0,
                   topologies |-> {FixedTopology}]
    /\ saved_ranges = <<>>

\* add_saved_range: the typed addresses are parsed into a range encoding.
ParseRange ==
    /\ parse_pc = "input"
    /\ parse_result' = parse_ip_range(ip_range_start, ip_range_end)
    /\ parse_pc' = "parsed"
    /\ UNCHANGED <<ip_range_start, ip_range_end, total_result, range_encoding, count_result>>
    /\ UNCHANGED nonParseVars

\* The address count of the encoding that was returned.
CountRange ==
    /\ parse_pc = "parsed"
    /\ parse_result.ok
    /\ total_result' = calculate_total_ips(parse_result.range)
    /\ parse_pc' = "counted"
    /\ UNCHANGED <<ip_range_start, ip_range_end, parse_result, range_encoding, count_result>>
    /\ UNCHANGED nonParseVars

\* The saved range is loaded back into the two address fields.
LoadSavedRange ==
    /\ parse_pc = "parsed"
    /\ parse_result.ok
    /\ LET loaded == load_saved_range(parse_result.range, ip_range_start, ip_range_end)
       IN  /\ ip_range_start' = loaded.ip_range_start
           /\ ip_range_end' = loaded.ip_range_end
    /\ parse_pc' = "loaded"
    /\ UNCHANGED <<parse_result, total_result, range_encoding, count_result>>
    /\ UNCHANGED nonParseVars

ParseNext == ParseRange \/ CountRange \/ LoadSavedRange

SpecParse == ParseInit /\ [][ParseNext]_vars

(***************************************************************************)
(* The two calculate_total_ips applied to range encodings                  *)
(***************************************************************************)
\* The last octets of the encodings that are counted.
CountOctets == {0, 1, 5, 9, 10, 100, 254, 255}

\* The encodings of a saved range, as scanner_config.json may hold them:
\* "10.0.81.<a>-<b>" in either order of a and b, and encodings without a dash,
\* without a dot before the dash, and with an end that is not a u8.
EncodingInputs ==
    { Subnet \o FormatNat(a) \o <<"-">> \o FormatNat(b) : a, b \in CountOctets }
    \cup { Subnet \o <<"5">>,
           <<"5", "-", "9">>,
           Subnet \o <<"x", "-", "5">>,
           Subnet \o <<"5", "-", "x">>,
           Subnet \o <<"5", "-", "2", "5", "6">>,
           Subnet \o <<"-", "5">>,
           Subnet \o <<"5", "-">>,
           <<>> }

\* main.rs: `end - start + 1` leaves the range of u8, in the subtraction or in
\* the addition.
app_total_ips_overflows(range) ==
    LET dash_pos == RFind(range, "-")
    IN  IF dash_pos = 0 THEN FALSE
        ELSE LET last_dot_pos == RFind(SubSeq(range, 1, dash_pos - 1), ".")
             IN  IF last_dot_pos = 0 THEN FALSE
                 ELSE LET start == ParseU8(SubSeq(range, last_dot_pos + 1, dash_pos - 1))
                          end == ParseU8(SubSeq(range, dash_pos + 1, Len(range)))
                      IN  /\ start.ok
                          /\ end.ok
                          /\ (end.val < start.val \/ end.val - start.val + 1 > 255)

\* The outcomes of main.rs's calculate_total_ips: u8 arithmetic that overflows
\* panics in a build with overflow checks and wraps in a build without them.
app_calculate_total_ips_outcomes(range) ==
    IF app_total_ips_overflows(range)
    THEN { [done |-> TRUE, panicked |-> TRUE, val |-> 0],
           [done |-> TRUE, panicked |-> FALSE, val |-> app_calculate_total_ips(range)] }
    ELSE { [done |-> TRUE, panicked |-> FALSE, val |-> app_calculate_total_ips(range)] }

CountInit ==
    /\ range_encoding \in EncodingInputs
    /\ count_result = NotCounted
    /\ ip_range_start = Subnet \o <<"0">>
    /\ ip_range_end = Subnet \o <<"2", "5", "5">>
    /\ parse_result = NotRun
    /\ total_result = NotRun
    /\ parse_pc = "input"
    /\ AppInit
    /\ scenario = [passes |-> 0, refreshes |-> 0, recordings |-> 0,
                   topologies |-> {FixedTopology}]
    /\ saved_ranges = <<>>

\* scanner.rs: calculate_total_ips(range)
CountScanner ==
    /\ ~count_result.scanner.done
    /\ count_result' = [count_result EXCEPT
                          !.scanner = [done |-> TRUE,
                                       val |-> calculate_total_ips(range_encoding)]]
    /\ UNCHANGED <<ip_range_start, ip_range_end, parse_result, total_result, parse_pc,
                   range_encoding>>
    /\ UNCHANGED nonParseVars

\* main.rs: self.calculate_total_ips(range)
CountApp ==
    /\ ~count_result.app.done
    /\ \E outcome \in app_calculate_total_ips_outcomes(range_encoding) :
         count_result' = [count_result EXCEPT !.app = outcome]
    /\ UNCHANGED <<ip_range_start, ip_range_end, parse_result, total_result, parse_pc,
                   range_encoding>>
    /\ UNCHANGED nonParseVars

CountNext == CountScanner \/ CountApp

SpecCount == CountInit /\ [][CountNext]_vars

(***************************************************************************)
(* Properties of the scan pass and the registry (checked under Spec)       *)
(***************************************************************************)
\* The number of addresses of a list of ranges.
RECURSIVE AddressCount(_)
AddressCount(ranges) ==
    IF ranges = <<>> THEN 0
    ELSE Cardinality(RangeOctets(Head(ranges))) + AddressCount(Tail(ranges))

AllPassesDone == \A w \in DOMAIN passes : passes[w].pc = "done"

\* C1 as stated: after a scan pass completes over ranges whose total address
\* count is T, scanned_ips <= T and scanning = false.
C1_Original ==
    (passes # <<>> /\ AllPassesDone)
    => /\ scan_progress.scanned_ips <= AddressCount(saved_ranges)
       /\ ~scan_progress.scanning

\* The addresses a pass has fetched a reading of.
FetchedIps(p) == { p.fetched[i][1] : i \in DOMAIN p.fetched }

\* The reading of the last discovery of an address in a pass.
LastFetched(p, ip) ==
    LET last == CHOOSE i \in DOMAIN p.fetched :
                  /\ p.fetched[i][1] = ip
                  /\ \A j \in DOMAIN p.fetched : p.fetched[j][1] = ip => j <= i
    IN  p.fetched[last][2]

EntriesOf(ms, ip) == { i \in DOMAIN ms : ms[i].ip = ip }

\* The times a pass has discovered an address.
TimesFetched(p, ip) == Cardinality({ i \in DOMAIN p.fetched : p.fetched[i][1] = ip })

\* C2: the registry a pass swaps in holds exactly one entry for every address
\* the pass discovered, and that entry holds the reading of the last discovery
\* of the address in the pass.
C2_DedupLatestWins ==
    [][\A w \in DOMAIN passes :
         Swap(w) => \A ip \in FetchedIps(passes[w]) :
                      /\ Cardinality(EntriesOf(miners', ip)) = 1
                      /\ \A i \in EntriesOf(miners', ip) :
                           /\ miners'[i].full_data = LastFetched(passes[w], ip)
                           /\ miners'[i].hashrate = LastFetched(passes[w], ip).seq]_vars

\* C2 witness: a pass that discovered an address twice has swapped, and the
\* one entry of the address holds the second reading.
C2_Witness ==
    \E w \in DOMAIN passes : \E ip \in Ips(miners) :
        /\ passes[w].pc = "finish"
        /\ TimesFetched(passes[w], ip) = 2
        /\ Cardinality(EntriesOf(miners, ip)) = 1
        /\ miners[Find(miners, ip)].full_data = LastFetched(passes[w], ip)

\* The addresses the successful enumerations of a pass returned.
EnumeratedIps(p) == UNION { p.enumerated[i].ips : i \in DOMAIN p.enumerated }

Swapped(p) == p.pc \in {"finish", "done"}

\* C3: in every state the registry is empty and no pass has swapped, or the
\* addresses of the registry are the complete result of a pass that has done
\* its swap.
C3_RegistryIsCompletePass ==
    \/ /\ miners = <<>>
       /\ \A w \in DOMAIN passes : ~Swapped(passes[w])
    \/ \E w \in DOMAIN passes :
         /\ Swapped(passes[w])
         /\ Ips(miners) = EnumeratedIps(passes[w])

\* C3 witness: a pass in flight has staged devices the registry does not hold,
\* while the registry holds the result of the pass before it.
C3_Witness ==
    \E w1, w2 \in DOMAIN passes :
        /\ passes[w1].pc = "done"
        /\ ~Swapped(passes[w2])
        /\ DOMAIN passes[w2].new_miners # {}
        /\ ~(DOMAIN passes[w2].new_miners \subseteq Ips(miners))
        /\ Ips(miners) = EnumeratedIps(passes[w1])

\* C4: when a pass swaps, every one of its ranges has been enumerated, whether
\* ranges before it failed or not, and every device a successful enumeration
\* returned is in the registry.
C4_FailingRangeIsSkipped ==
    [][\A w \in DOMAIN passes :
         Swap(w) => /\ Len(passes[w].enumerated) = Len(saved_ranges)
                    /\ EnumeratedIps(passes[w]) \subseteq Ips(miners')]_vars

\* C4 witness: the first range of a pass failed, the second returned a device,
\* and the device is in the registry after the swap.
C4_Witness ==
    \E w \in DOMAIN passes :
        /\ passes[w].pc = "finish"
        /\ Len(passes[w].enumerated) = 2
        /\ ~passes[w].enumerated[1].ok
        /\ passes[w].enumerated[2].ips # {}
        /\ passes[w].enumerated[2].ips \subseteq Ips(miners)

\* C5: applying a refresh never changes the addresses or the size of the
\* registry, and leaves the registry as it is when the address is absent.
C5_RefreshNeverInserts ==
    [][\A t \in DOMAIN refreshes :
         RefreshApply(t) => /\ Len(miners') = Len(miners)
                            /\ Ips(miners') = Ips(miners)
                            /\ refreshes[t].ip \notin Ips(miners) => miners' = miners]_vars

\* C5 witness: a refresh was applied after a swap had removed its address, and
\* the registry, which holds other devices, does not hold the address.
C5_Witness ==
    \E t \in DOMAIN refreshes :
        /\ refreshes[t].outcome = "absent"
        /\ miners # <<>>
        /\ refreshes[t].ip \notin Ips(miners)

\* C13: the automatic trigger launches a pass only in a state in which scanning
\* is false: the flag that its check read as false is false at the launch.
C13_AutoScanOnlyWhenIdle == [][AutoScan => ~scan_progress.scanning]_vars

\* C13 witness: after a completed pass the check of the automatic trigger has
\* read scanning as false, and the trigger is about to launch the next pass.
C13_Witness ==
    /\ update_pc = "launch"
    /\ Len(passes) = 1
    /\ passes[1].pc = "done"
    /\ ~scan_progress.scanning

\* The passes whose worker thread is still running.
InFlight == { w \in DOMAIN passes : passes[w].pc # "done" }

\* C14 as stated: at most one scan pass is in flight at any time.
C14_Original == Cardinality(InFlight) <= 1

\* C15 as stated: scanned_ips <= total_ips in every reachable state.
C15_Original == scan_progress.scanned_ips <= scan_progress.total_ips

\* C16 as stated: while a pass is in flight scanned_ips never decreases, the
\* launch of a pass takes scanning from false to true and the end of a pass
\* takes it from true to false.
C16_Original ==
    [][/\ \A w \in InFlight :
            passes'[w].pc # "done"
            => scan_progress'.scanned_ips >= scan_progress.scanned_ips
       /\ Len(passes') > Len(passes)
            => ~scan_progress.scanning /\ scan_progress'.scanning
       /\ \A w \in DOMAIN passes :
            Finish(w) => scan_progress.scanning /\ ~scan_progress'.scanning]_vars

\* C17 as stated: scanning is true in every state in which a pass worker is
\* still running.
C17_Original == InFlight # {} => scan_progress.scanning

\* C18: the registry a pass swaps in holds exactly the addresses the pass
\* discovered; an address of the registry before the swap that the pass did
\* not discover is absent after it.
C18_SwapReplacesRegistry ==
    [][\A w \in DOMAIN passes :
         Swap(w) => /\ Ips(miners') = FetchedIps(passes[w])
                    /\ \A ip \in Ips(miners) \ FetchedIps(passes[w]) :
                         ip \notin Ips(miners')]_vars

\* C18 witness: a pass has swapped after an earlier pass, and a device the
\* earlier pass had discovered and this pass did not is gone from the registry.
C18_Witness ==
    \E w1, w2 \in DOMAIN passes :
        /\ passes[w1].pc = "done"
        /\ passes[w2].pc = "finish"
        /\ Ips(miners) = FetchedIps(passes[w2])
        /\ Ips(miners) # {}
        /\ FetchedIps(passes[w1]) \ Ips(miners) # {}

\* C19: in every state the registry holds at most one entry per address.
C19_OneEntryPerAddress ==
    \A i, j \in DOMAIN miners : miners[i].ip = miners[j].ip => i = j

\* C19 witness: a registry of two devices, swapped in by the second of two
\* passes, which discovered one of the devices twice, and updated by a refresh.
C19_Witness ==
    /\ Len(miners) = 2
    /\ Len(passes) = 2
    /\ Swapped(passes[2])
    /\ \E ip \in Ips(miners) : TimesFetched(passes[2], ip) = 2
    /\ \E t \in DOMAIN refreshes : refreshes[t].outcome = "updated"

\* C20 as stated: every field of a registry entry comes from one and the same
\* reading: the display fields are those of the stored reading.
C20_Original ==
    \A i \in DOMAIN miners : miners[i].hashrate = miners[i].full_data.seq

TimestampOrder(buffer) ==
    \A i, j \in DOMAIN buffer : i < j => buffer[i].timestamp <= buffer[j].timestamp

\* C27 as stated: in every state the timestamps of the points of every
\* history buffer, coarse or fine, do not decrease from the oldest to the
\* newest.
C27_Original ==
    /\ \A ip \in DOMAIN hashrate_history : TimestampOrder(hashrate_history[ip])
    /\ \A ip \in DOMAIN detail_metrics_history : TimestampOrder(detail_metrics_history[ip])

\* The registry holds the result of a pass: the entries the pass staged.
HoldsResultOf(p) ==
    /\ Ips(miners) = DOMAIN p.new_miners
    /\ \A i \in DOMAIN miners : miners[i] = p.new_miners[miners[i].ip]

\* C29 as stated: in every state in which scanning is false after a pass, the
\* registry holds the result of a pass that has completed and current_ip is
\* empty.
C29_Original ==
    (~scan_progress.scanning /\ \E w \in DOMAIN passes : passes[w].pc = "done") =>
        /\ scan_progress.current_ip = 0
        /\ \E w \in DOMAIN passes : passes[w].pc = "done" /\ HoldsResultOf(passes[w])

(***************************************************************************)
(* Properties of one scan pass (checked under SpecPass)                    *)
(***************************************************************************)
\* C26 as stated: a pass appends one point to the coarse buffer of a device
\* for each discovery of the device: after the only pass of a run the buffer
\* of every address holds as many points as the pass fetched readings of it.
C26_Original ==
    \A w \in DOMAIN passes :
        passes[w].pc = "done" =>
            \A ip \in RangeOctets(SavedRange(1, 2)) :
                Len(HistoryOf(hashrate_history, ip)) = TimesFetched(passes[w], ip)

(***************************************************************************)
(* Properties of the scan passes under fair scheduling (SpecFair)          *)
(***************************************************************************)
\* C30: every pass that is started completes: it reaches the state in which
\* it has swapped the registry and scanning is false, whatever its ranges
\* report and whichever of them fail.
C30_PassCompletes ==
    \A w \in 1..MaxPasses :
        (w \in DOMAIN passes) ~>
            (/\ w \in DOMAIN passes
             /\ passes[w].pc = "done"
             /\ Swapped(passes[w])
             /\ ~scan_progress.scanning)

\* C30 witness: two passes have completed, one of them with a range that
\* failed and a range that reported devices.
C30_Witness ==
    /\ Len(passes) = MaxPasses
    /\ AllPassesDone
    /\ ~scan_progress.scanning
    /\ \E w \in DOMAIN passes :
         /\ \E i \in DOMAIN passes[w].enumerated : ~passes[w].enumerated[i].ok
         /\ passes[w].fetched # <<>>

(***************************************************************************)
(* Properties of the history buffers (checked under SpecHistory)           *)
(***************************************************************************)
\* A buffer of capacity C after n insertions, the k-th of them stamped k: it
\* never holds more than C points, and once n > C it holds exactly C, the
\* oldest of them the (n-C+1)-th inserted.
BoundedFifo(buffer, capacity, n) ==
    /\ Len(buffer) <= capacity
    /\ n <= capacity => Len(buffer) = n
    /\ n > capacity => /\ Len(buffer) = capacity
                       /\ buffer[1].timestamp = n - capacity + 1
                       /\ buffer[capacity].timestamp = n

\* C6: every coarse buffer (capacity 288) and every fine buffer (capacity 9000)
\* is a bounded FIFO in every state: its size never exceeds the capacity, and
\* after N > C insertions it is exactly C and the oldest retained point is the
\* (N-C+1)-th inserted.
C6_HistoryBufferBound ==
    /\ \A ip \in DOMAIN hashrate_history :
         BoundedFifo(hashrate_history[ip], MAX_HISTORY_POINTS, history_run.inserted)
    /\ \A ip \in DOMAIN detail_metrics_history :
         BoundedFifo(detail_metrics_history[ip], MAX_METRICS_POINTS, history_run.inserted)

\* C6 witness: a coarse buffer has taken more insertions than its capacity.
C6_Witness ==
    /\ history_run.family = "coarse"
    /\ history_run.inserted = MAX_HISTORY_POINTS + 2
    /\ Len(hashrate_history[history_run.ip]) = MAX_HISTORY_POINTS
    /\ hashrate_history[history_run.ip][1].timestamp = 3

(***************************************************************************)
(* Properties of the recorder (checked under SpecRecorder)                 *)
(***************************************************************************)
\* C7 as stated: once start has written a header with N board and M fan
\* columns, every row appended to the recording has exactly N+N+M dynamic
\* columns, whatever the later readings of the device report.
C7_Original ==
    \A path \in DOMAIN files :
        \A h \in DOMAIN files[path].header : \A r \in DOMAIN files[path].rows :
            DynamicColumns(files[path].rows[r]) = DynamicColumns(files[path].header[h])

(***************************************************************************)
(* Properties of the RangeParser (checked under SpecParse)                 *)
(***************************************************************************)
StartParts == Split(ip_range_start, ".")
EndParts == Split(ip_range_end, ".")

\* An octet written canonically: the decimal text of a number in [0,255].
CanonicalOctet(tok) == \E n \in 0..255 : FormatNat(n) = tok
OctetNumber(tok) == CHOOSE n \in 0..255 : FormatNat(n) = tok

ValidAddress(parts) == Len(parts) = 4 /\ \A i \in 1..4 : CanonicalOctet(parts[i])

FirstThreeMatch(a, b) == \A i \in 1..3 : a[i] = b[i]

\* Both inputs are valid 4-octet addresses of the same subnet.
ValidSameSubnet ==
    /\ ValidAddress(StartParts)
    /\ ValidAddress(EndParts)
    /\ FirstThreeMatch(StartParts, EndParts)

\* C8: for all valid 4-octet (start, end) with matching first three octets and
\* start's last octet <= end's last octet, parse_ip_range succeeds and
\* calculate_total_ips of the returned encoding is end - start + 1.
C8_ValidRangeParsesAndCounts ==
    (/\ parse_pc # "input"
     /\ ValidSameSubnet
     /\ OctetNumber(StartParts[4]) <= OctetNumber(EndParts[4]))
    => /\ parse_result.ok
       /\ parse_pc = "counted" =>
            total_result = OctetNumber(EndParts[4]) - OctetNumber(StartParts[4]) + 1

\* C8 witness: the whole subnet 0-255 has been parsed and counted as 256.
C8_Witness ==
    /\ parse_pc = "counted"
    /\ ValidSameSubnet
    /\ OctetNumber(StartParts[4]) = 0
    /\ OctetNumber(EndParts[4]) = 255
    /\ total_result = 256

\* Some of the first three octets of the two inputs differ.
FirstThreeDiffer ==
    /\ Len(StartParts) >= 3
    /\ Len(EndParts) >= 3
    /\ ~FirstThreeMatch(StartParts, EndParts)

\* C9 as stated: for all (start, end) whose first three octets differ,
\* parse_ip_range fails with SubnetMismatch and with no other error.
C9_Original ==
    (parse_pc # "input" /\ FirstThreeDiffer) => parse_result = Err(SubnetMismatch)

\* C9 amended: for all (start, end) that both split into exactly four parts and
\* whose first three parts differ, parse_ip_range fails with SubnetMismatch,
\* whatever the last parts are.
C9_SubnetMismatchOfFourParts ==
    (/\ parse_pc # "input"
     /\ Len(StartParts) = 4
     /\ Len(EndParts) = 4
     /\ FirstThreeDiffer)
    => parse_result = Err(SubnetMismatch)

\* C9 witness: the subnets differ and the last octets are inverted as well.
C9_Witness ==
    /\ parse_pc = "parsed"
    /\ ValidAddress(StartParts)
    /\ ValidAddress(EndParts)
    /\ FirstThreeDiffer
    /\ OctetNumber(StartParts[4]) > OctetNumber(EndParts[4])
    /\ parse_result = Err(SubnetMismatch)

\* start > end for two valid addresses, in the address order as well as in
\* the last octet.
StartExceedsEnd ==
    /\ ValidAddress(StartParts)
    /\ ValidAddress(EndParts)
    /\ OctetNumber(StartParts[4]) > OctetNumber(EndParts[4])
    /\ \A i \in 1..3 : OctetNumber(StartParts[i]) >= OctetNumber(EndParts[i])

\* C10 as stated: for all (start, end) with start > end, parse_ip_range fails
\* with OrderingError.
C10_Original ==
    (parse_pc # "input" /\ StartExceedsEnd) => parse_result = Err(OrderingError)

\* C10 amended: for all valid 4-octet (start, end) with matching first three
\* octets and start's last octet > end's last octet, parse_ip_range fails with
\* OrderingError.
C10_OrderingErrorInSubnet ==
    (/\ parse_pc # "input"
     /\ ValidSameSubnet
     /\ OctetNumber(StartParts[4]) > OctetNumber(EndParts[4]))
    => parse_result = Err(OrderingError)

\* C10 witness: an inverted range inside one subnet has been rejected.
C10_Witness ==
    /\ parse_pc = "parsed"
    /\ ValidSameSubnet
    /\ OctetNumber(StartParts[4]) = 200
    /\ OctetNumber(EndParts[4]) = 5
    /\ parse_result = Err(OrderingError)

\* An octet text that parse::<u8> reads as a number in [0,255].
NumericOctet(tok) == ParseU8(tok).ok

WellFormedAddress(parts) == Len(parts) = 4 /\ \A i \in 1..4 : NumericOctet(parts[i])

\* C11 as stated: parse_ip_range never returns a range when any of the four
\* octets of start or of end is not a number in [0,255].
C11_Original ==
    (parse_pc # "input" /\ parse_result.ok)
    => WellFormedAddress(StartParts) /\ WellFormedAddress(EndParts)

(***************************************************************************)
(* Properties of calculate_total_ips (checked under SpecCount)             *)
(***************************************************************************)
\* The count the encoding "<prefix>.<start>-<end>" stands for: end - start + 1,
\* and 0 when the encoding is not of that form or has end < start.
ExpectedCount(range) ==
    LET sides == Split(range, "-")
    IN  IF Len(sides) # 2 THEN 0
        ELSE LET octets == Split(sides[1], ".")
                 start == ParseU8(octets[Len(octets)])
                 end == ParseU8(sides[2])
             IN  IF Len(octets) >= 2 /\ start.ok /\ end.ok /\ end.val >= start.val
                 THEN end.val - start.val + 1
                 ELSE 0

\* C12 as stated: calculate_total_ips is total: for every encoding it returns,
\* without failing or overflowing its octet arithmetic, 0 when the encoding is
\* malformed, unparseable or has end < start, and end - start + 1 otherwise.
C12_Original ==
    /\ count_result.scanner.done
         => count_result.scanner.val = ExpectedCount(range_encoding)
    /\ count_result.app.done
         => /\ ~count_result.app.panicked
            /\ count_result.app.val = ExpectedCount(range_encoding)

(***************************************************************************)
(* Properties of the detail view (checked under SpecRecorder)              *)
(***************************************************************************)
\* C21 as stated: no activity performs a device fetch or a write of a
\* recording file while it holds the registry lock: a thread that is fetching
\* does not hold it, and the UI thread that is writing does not hold it.
C21_Original ==
    /\ (\E t \in DOMAIN refreshes : refreshes[t].pc = "fetch") => miners_lock # "refresh"
    /\ (\E w \in DOMAIN passes : passes[w].pc = "fetch") => miners_lock # "pass"
    /\ update_pc = "write" => miners_lock # "ui"

\* C22 as stated: an automatic refresh of an address is issued only in a frame
\* in which no instant is kept for the address or the interval has elapsed
\* since it, a frame of the view that issues none is a frame in which none is
\* due, issuing it sets the instant to now, and two consecutive automatic
\* refreshes of an address are at least one interval apart.
C22_Original ==
    [][\A ip \in Ips(miners) :
         /\ AutoRefresh(ip) => /\ should_auto_refresh(ip)
                               /\ detail_refresh_times'[ip] = 0
                               /\ last_auto_refresh'[ip].apart \in {"first", "interval"}
         /\ (UpdateGraph(ip) \/ ManualRefresh(ip)) => ~should_auto_refresh(ip)]_vars

\* C22, amended: as C22_Original, with two consecutive automatic refreshes of
\* an address at least one interval apart unless the view of the address was
\* closed between them.
C22_TimeTriggered ==
    [][\A ip \in Ips(miners) :
         /\ AutoRefresh(ip) => /\ should_auto_refresh(ip)
                               /\ detail_refresh_times'[ip] = 0
                               /\ last_auto_refresh'[ip].apart # "early"
         /\ (UpdateGraph(ip) \/ ManualRefresh(ip)) => ~should_auto_refresh(ip)]_vars

\* C22 witness: the second of two automatic refreshes of an address has just
\* been issued, a whole interval after the first, the view open all the while.
C22_Witness ==
    \E ip \in detail_view_miners :
        /\ ip \in DOMAIN last_auto_refresh
        /\ last_auto_refresh[ip] = [elapsed |-> 0, closed |-> FALSE, apart |-> "interval",
                                    deleted |-> FALSE]
        /\ detail_refresh_times[ip] = 0
        /\ Len(refreshes) = 2

\* C28: the row count of a recording is the number of rows appended since its
\* start: it is 0 after a start, it grows by exactly one with each row an
\* append writes, and every other step (an append that fails, a stop, an
\* export) leaves it as it is.
C28_RowCountCountsRows ==
    [][\A ip \in DOMAIN recording_states' :
         IF StartRecording(ip) THEN recording_states'[ip].row_count = 0
         ELSE /\ ip \in DOMAIN recording_states
              /\ recording_states'[ip].row_count =
                   IF RowAppended(ip) THEN recording_states[ip].row_count + 1
                   ELSE recording_states[ip].row_count]_vars

\* C28 witness: a recording of one row was stopped and exported, and the
\* recording started after it holds no row.
C28_Witness ==
    \E ip \in DOMAIN recording_states :
        /\ recording_states[ip].is_recording
        /\ recording_states[ip].row_count = 0
        /\ ExportPath(ip) \in DOMAIN files
        /\ Len(files[ExportPath(ip)].rows) = 1
        /\ Cardinality(Recordings) = 2
        /\ Len(refreshes) = 2

(***************************************************************************)
(* Properties of append_data_point (checked under SpecAppend)              *)
(***************************************************************************)
\* The call is made on a stopped recording or with an entry without full_data.
AppendIsNoOp ==
    \/ ~recording_states[append_call.ip].is_recording
    \/ append_call.miner.full_data = NoData

\* C23: append_data_point on a stopped recording, or with an entry that has
\* no full_data, returns Ok(()), writes no row and leaves the recording as it
\* is.
C23_AppendNoOp ==
    [][(AppendNext /\ AppendIsNoOp) =>
          /\ append_call'.result = "Ok"
          /\ files' = files
          /\ recording_states' = recording_states]_vars

\* C23 witness: the call has returned on an active recording of two rows with
\* an entry without full_data.
C23_Witness ==
    /\ append_call.called
    /\ append_call.miner.full_data = NoData
    /\ recording_states[append_call.ip].is_recording
    /\ recording_states[append_call.ip].row_count = MaxRows
    /\ recording_states[append_call.ip].file_path \in DOMAIN files

(***************************************************************************)
(* Properties of the detail views (checked under SpecDetail)               *)
(***************************************************************************)
\* A step leaves a map as it is at an address.
SameAt(before, after, a) ==
    /\ a \in DOMAIN after <=> a \in DOMAIN before
    /\ a \in DOMAIN before => after[a] = before[a]

\* A step leaves the view of an address, its fine buffer, its instants, its
\* recording and the file of its recording as they are.
ViewUntouched(a) ==
    /\ a \in detail_view_miners' <=> a \in detail_view_miners
    /\ a \in detail_graph_update_times' <=> a \in detail_graph_update_times
    /\ SameAt(detail_metrics_history, detail_metrics_history', a)
    /\ SameAt(detail_refresh_times, detail_refresh_times', a)
    /\ SameAt(recording_states, recording_states', a)
    /\ a \in DOMAIN recording_states =>
          SameAt(files, files', recording_states[a].file_path)

FetchFailed(t) ==
    /\ t \in DOMAIN refreshes
    /\ refreshes[t].pc = "fetch"
    /\ refreshes'[t].pc = "done"
    /\ refreshes'[t].outcome = "no_miner"

\* C31: a step in which the fetch of a refresh thread fails changes nothing
\* but that thread: the registry keeps every entry as it was, none is added
\* or removed, and the scan passes, the progress, the coarse history, the
\* other refresh threads and the UI thread are where they were, free to go on.
C31_FailedRefreshChangesNothing ==
    [][\A t \in 1..MaxRefreshes :
         FetchFailed(t) =>
            /\ miners' = miners
            /\ passes' = passes
            /\ scan_progress' = scan_progress
            /\ hashrate_history' = hashrate_history
            /\ update_pc' = update_pc
            /\ DOMAIN refreshes' = DOMAIN refreshes
            /\ \A u \in DOMAIN refreshes : u # t => refreshes'[u] = refreshes[u]]_vars

\* C31 witness: the fetch of a refresh failed, a later refresh has updated
\* the registry and a pass launched beside them has completed.
C31_Witness ==
    \E t, u \in DOMAIN refreshes : \E w \in DOMAIN passes :
        /\ refreshes[t].outcome = "no_miner"
        /\ refreshes[u].outcome = "updated"
        /\ t < u
        /\ w > 1
        /\ passes[w].pc = "done"
        /\ miners # <<>>

(***************************************************************************)
(* Properties of a recording that fails to start (SpecRecorder)            *)
(***************************************************************************)
\* No row is appended in this step to a recording file of an address.
NoRowAppendedFor(ip) ==
    \A f \in DOMAIN files \cap DOMAIN files' :
        f[1] = ip => Len(files'[f].rows) <= Len(files[f].rows)

\* C32: a start of a recording that fails registers nothing: the map of the
\* recording states is left as it is and the device is still not recording;
\* and as long as a device is not recording and no start succeeds, no step,
\* a refresh of its view included, appends a row to a file of the device.
C32_FailedStartRegistersNothing ==
    [][\A ip \in Ips(miners) :
         /\ StartRecordingFails(ip) =>
               /\ recording_states' = recording_states
               /\ ~(ip \in DOMAIN recording_states' /\ recording_states'[ip].is_recording)
         /\ (~IsRecording(ip) /\ ~StartRecording(ip)) => NoRowAppendedFor(ip)]_vars

\* C32 witness: the header of a recording could not be written, no recording
\* state is registered for the device, and the view has gone through a
\* refresh a whole interval after its first with no row in any file.
C32_Witness ==
    \E ip \in Ips(miners) :
        /\ ip \notin DOMAIN recording_states
        /\ \E f \in Recordings : f[1] = ip /\ files[f].header = <<>>
        /\ \A f \in DOMAIN files : files[f].rows = <<>>
        /\ ip \in DOMAIN last_auto_refresh
        /\ last_auto_refresh[ip].apart = "interval"
        /\ last_auto_refresh[ip].elapsed = 0
        /\ update_pc = "idle"

(***************************************************************************)
(* The row of a time-triggered refresh (SpecRecorder)                      *)
(***************************************************************************)
\* C33 as stated: the row appended for a time-triggered refresh holds the
\* reading fetched by that same refresh: once the refresh thread that was
\* spawned with the row has fetched its reading, the row holds that reading
\* and not the one the registry held before the fetch.
C33_Original ==
    \A t \in DOMAIN refreshes :
        (refreshes[t].appended # NoData /\ refreshes[t].pc # "fetch"
           /\ refreshes[t].outcome # "no_miner") =>
            refreshes[t].appended.seq = refreshes[t].data.seq

(***************************************************************************)
(* The reading the registry ends with (SpecRefresh)                        *)
(***************************************************************************)
\* The numbers of the readings of an address that the refresh threads and the
\* passes have fetched; the readings are numbered in the order of the fetches.
FetchedOf(ip) ==
    { refreshes[t].data.seq :
        t \in { u \in DOMAIN refreshes :
                  refreshes[u].ip = ip /\ refreshes[u].data # NoData } }
    \cup UNION { { passes[w].fetched[i][2].seq :
                      i \in { j \in DOMAIN passes[w].fetched :
                                passes[w].fetched[j][1] = ip } } :
                  w \in DOMAIN passes }

\* Every refresh thread and every pass has finished.
AllFinished ==
    /\ AllPassesDone
    /\ \A t \in DOMAIN refreshes : refreshes[t].pc = "done"

\* C34 as stated: once every refresh thread and every pass has finished, the
\* entry of an address holds the reading of the address that was fetched
\* last, whatever the order in which the threads applied their readings.
C34_Original ==
    AllFinished =>
        \A i \in DOMAIN miners :
            \A seq \in FetchedOf(miners[i].ip) : miners[i].full_data.seq >= seq

(***************************************************************************)
(* Two scan passes that overlap (Spec)                                     *)
(***************************************************************************)
\* The entries of a registry, and the entries a pass has staged.
EntriesIn(ms) == { ms[i] : i \in DOMAIN ms }
StagedBy(p) == { p.new_miners[a] : a \in DOMAIN p.new_miners }

\* C35: each pass stages into its own map: a step of a pass leaves the maps
\* of the other passes as they are. The registry is the complete result of
\* the pass that swapped last: a swap makes its entries exactly the entries
\* its pass staged, and between two swaps no entry is added, removed or
\* changed.
C35_LastSwapWins ==
    [][/\ \A w \in DOMAIN passes :
            /\ PassStep(w) =>
                  \A v \in DOMAIN passes : v # w => passes'[v] = passes[v]
            /\ Swap(w) => EntriesIn(miners') = StagedBy(passes[w])
       /\ (\A w \in DOMAIN passes : ~Swap(w)) => EntriesIn(miners') = EntriesIn(miners)]_vars

\* C35 witness: two passes have finished, and the registry holds the result
\* of the first, which differs from the result of the second: the second was
\* launched while the first was in flight and swapped before it.
C35_Witness ==
    /\ Len(passes) = 2
    /\ AllPassesDone
    /\ miners # <<>>
    /\ EntriesIn(miners) = StagedBy(passes[1])
    /\ StagedBy(passes[2]) # {}
    /\ Ips(miners) = DOMAIN passes[2].new_miners
    /\ EntriesIn(miners) \cap StagedBy(passes[2]) = {}

C37_Original ==
    \A ip \in Ips(miners) :
        ip \notin detail_view_miners =>
            \A f \in Recordings : f[1] # ip

(***************************************************************************)
(* The coarse history across the swaps (Spec)                              *)
(***************************************************************************)
\* A buffer after a step is the buffer before it, or the buffer before it
\* with one point pushed.
ContinuesBuffer(before, after) ==
    \/ after = before
    \/ /\ after # <<>>
       /\ after = PushCoarse(before, after[Len(after)])

\* C38: the swap of a pass leaves the coarse history as it is, and no step
\* removes or restarts a buffer: the buffer of a device that a swap dropped
\* from the registry keeps its points, and the points of a device that a
\* later pass discovers again are pushed to the buffer it had.
C38_SwapKeepsHistory ==
    [][/\ \A w \in DOMAIN passes : Swap(w) => hashrate_history' = hashrate_history
       /\ \A ip \in DOMAIN hashrate_history :
            /\ ip \in DOMAIN hashrate_history'
            /\ ContinuesBuffer(hashrate_history[ip], hashrate_history'[ip])]_vars

\* C38 witness: the second pass has swapped; a device of the first pass is
\* gone from the registry and its buffer holds the point of the first pass,
\* and the buffer of a device of both passes holds the points of both.
C38_Witness ==
    /\ Len(passes) = 2
    /\ passes[1].pc = "done"
    /\ Swapped(passes[2])
    /\ Ips(miners) = DOMAIN passes[2].new_miners
    /\ \E gone \in DOMAIN hashrate_history \ Ips(miners) :
         /\ gone \in DOMAIN passes[1].new_miners
         /\ Len(hashrate_history[gone]) >= 1
    /\ \E kept \in Ips(miners) :
         /\ kept \in DOMAIN passes[1].new_miners
         /\ Len(hashrate_history[kept]) >= 2
         /\ hashrate_history[kept][1].timestamp < hashrate_history[kept][2].timestamp


\* C39: for every (start, end) accepted by parse_ip_range whose octets are
\* all written canonically, load_saved_range applied to the returned encoding
\* leaves in the two address fields exactly the start and the end that were
\* parsed.
C39_SavedRangeRoundTrip ==
    [][(LoadSavedRange /\ ValidAddress(StartParts) /\ ValidAddress(EndParts))
       => /\ ip_range_start' = ip_range_start
          /\ ip_range_end' = ip_range_end]_vars

\* C39 witness: the range 10.0.81.9-100, whose two last octets differ in their
\* number of digits, has been parsed and loaded back.
C39_Witness ==
    /\ parse_pc = "loaded"
    /\ parse_result.ok
    /\ ValidSameSubnet
    /\ StartParts[3] = <<"8", "1">>
    /\ OctetNumber(StartParts[4]) = 9
    /\ OctetNumber(EndParts[4]) = 100
    /\ parse_result.range = ip_range_start \o <<"-">> \o EndParts[4]

====
